---------------------------- MODULE Spec2Model ----------------------------
(***************************************************************************)
(* Micropub MCP server: the delegated dual-role OAuth bridge               *)
(* (src/src/auth-handler.ts) and the helpers it uses.                      *)
(*                                                                         *)
(* Strings are sequences of symbols.  A symbol is either one character     *)
(* that the program treats specially (the five HTML-special characters,    *)
(* the space) or a chunk of text without any such character.               *)
(* The JavaScript value undefined/null is the one-symbol string            *)
(* `undefined'; it is never drawn as a real input.                         *)
(***************************************************************************)
EXTENDS Integers, Sequences, FiniteSets, TLC

VARIABLES
    now,          \* wall clock, in ticks of TickSeconds seconds
    kv,           \* env.OAUTH_KV: key "pending:<state>" -> [value, expiration]
    issued,       \* state values generateState() has returned so far
    processed,    \* state values whose record a finished callback has consumed
    login,        \* the last POST /authorize handled: its inputs and response
    cb,           \* the /indieauth-callback requests being handled or answered
    page,         \* the last page rendered from raw strings
    call,         \* the last library or tool call made: its inputs and outcome
    session,      \* agent.state of the session-token variant (SessionState)
    flows         \* the flows micropub_auth_start has started on the session

vars == <<now, kv, issued, processed, login, cb, page, call, session, flows>>

-----------------------------------------------------------------------------
(* Bounds of the model *)

MaxTicks == 2
TickSeconds == 300
MaxCallbacks == 2
MaxMsgLen == 3

-----------------------------------------------------------------------------
(* JavaScript values *)

undefined == <<"undefined">>

\* !x for a string-or-undefined x
Falsy(x) == x = undefined \/ x = <<>>

Truthy(x) == ~Falsy(x)

\* a || b
OrElse(a, b) == IF Truthy(a) THEN a ELSE b

\* `${error}` for a thrown Error object
ErrorToString(err) == <<err.name, ": ">> \o err.message

Error(msg) == [name |-> "Error", message |-> msg]

TypeError(msg) == [name |-> "TypeError", message |-> msg]

NoError == [name |-> "", message |-> <<>>]

\* new URL(u) succeeds exactly on absolute URLs: the string starts with a scheme
Schemes == {"https://", "http://"}

IsAbsoluteUrl(u) == u # undefined /\ Len(u) > 0 /\ u[1] \in Schemes

-----------------------------------------------------------------------------
(* escapeHtml and the pages *)

HtmlSpecial == {"&", "<", ">", "\"", "'"}

htmlEscapes(char) ==
    CASE char = "&" -> "&amp;"
      [] char = "<" -> "&lt;"
      [] char = ">" -> "&gt;"
      [] char = "\"" -> "&quot;"
      [] char = "'" -> "&#39;"
      [] OTHER -> char

\* a plausible slip: the apostrophe is left out of the character class
escapeHtmlNoApos(str) ==
    [i \in 1..Len(str) |->
        IF str[i] \in (HtmlSpecial \ {"'"}) THEN htmlEscapes(str[i]) ELSE str[i]]

escapeHtml(str) ==
    [i \in 1..Len(str) |->
        IF str[i] \in HtmlSpecial THEN htmlEscapes(str[i]) ELSE str[i]]

\* A page is its status and its body; the body is the template's literal
\* markup (lit) interleaved with the interpolated strings (dyn).
Lit(name) == [kind |-> "lit", text |-> <<name>>]

Dyn(str) == [kind |-> "dyn", text |-> str]

RetryLink == Lit("<p><a href=\"/authorize\">Try again</a></p>")

renderErrorPage(message) ==
    [type   |-> "html",
     status |-> 400,
     body   |-> <<Lit("<h1>Authentication Error</h1><div class=\"error-box\"><p>"),
                  Dyn(escapeHtml(message)),
                  Lit("</p></div>"),
                  RetryLink>>,
     url    |-> [endpoint |-> <<>>, query |-> <<>>]]

Redirect(target) ==
    [type |-> "redirect", status |-> 302, body |-> <<>>, url |-> target]

\* a handler that lets an exception escape produces no page of its own
Uncaught(err) ==
    [type |-> "exception", status |-> 500, body |-> <<Dyn(ErrorToString(err))>>,
     url |-> [endpoint |-> <<>>, query |-> <<>>]]

NoResponse ==
    [type |-> "none", status |-> 0, body |-> <<>>, url |-> [endpoint |-> <<>>, query |-> <<>>]]


-----------------------------------------------------------------------------
(* URLs built with URL/URLSearchParams: the endpoint and its query          *)
(* parameters, kept parsed.                                                 *)

Param(name, value) == [name |-> name, value |-> value]

NoUrl == [endpoint |-> <<>>, query |-> <<>>]

\* str.split(" "): the pieces between single spaces, empty pieces included
RECURSIVE Split(_, _)
Split(str, sep) ==
    IF \A i \in 1..Len(str) : str[i] # sep
    THEN <<str>>
    ELSE LET i == CHOOSE k \in 1..Len(str) :
                    str[k] = sep /\ \A j \in 1..(k - 1) : str[j] # sep
         IN  <<SubSeq(str, 1, i - 1)>> \o Split(SubSeq(str, i + 1, Len(str)), sep)

\* array.join(" ")
RECURSIVE Join(_, _)
Join(arr, sep) ==
    IF Len(arr) = 0 THEN <<>>
    ELSE IF Len(arr) = 1 THEN arr[1]
    ELSE arr[1] \o <<sep>> \o Join(Tail(arr), sep)

-----------------------------------------------------------------------------
(* env.OAUTH_KV: a key/value store whose entries expire                     *)

PENDING_AUTH_TTL == 600

NowSeconds(t) == t * TickSeconds

\* The members of a pending record that hold strings, and those of the
\* upstream request stored in it
PendingMembers ==
    {"me", "micropubEndpoint", "mediaEndpoint", "authorizationEndpoint",
     "tokenEndpoint", "codeVerifier", "clientRedirectUri", "requestedScope"}

RequestMembers ==
    {"responseType", "clientId", "redirectUri", "state", "codeChallenge",
     "codeChallengeMethod"}

\* JSON.stringify writes no member whose value is undefined
Written(obj, members) == [k \in {m \in members : obj[m] # undefined} |-> obj[k]]

\* a member that the text does not hold reads as undefined
Member(obj, k) == IF k \in DOMAIN obj THEN obj[k] ELSE undefined

\* JSON.stringify(pendingAuth): the text, a string of one symbol that holds
\* the members written
JSONStringify(v) ==
    <<[members |-> Written(v, PendingMembers),
       createdAt |-> v.createdAt,
       request |-> Written(v.storedOAuthReq, RequestMembers),
       scope |-> v.storedOAuthReq.scope]>>

\* JSON.parse(pendingJson), read as PendingAuth & {storedOAuthReq}
JSONParse(json) ==
    LET text == json[1]
    IN  [me |-> Member(text.members, "me"),
         micropubEndpoint |-> Member(text.members, "micropubEndpoint"),
         mediaEndpoint |-> Member(text.members, "mediaEndpoint"),
         authorizationEndpoint |-> Member(text.members, "authorizationEndpoint"),
         tokenEndpoint |-> Member(text.members, "tokenEndpoint"),
         codeVerifier |-> Member(text.members, "codeVerifier"),
         clientRedirectUri |-> Member(text.members, "clientRedirectUri"),
         requestedScope |-> Member(text.members, "requestedScope"),
         createdAt |-> text.createdAt,
         storedOAuthReq |->
             [responseType |-> Member(text.request, "responseType"),
              clientId |-> Member(text.request, "clientId"),
              redirectUri |-> Member(text.request, "redirectUri"),
              state |-> Member(text.request, "state"),
              scope |-> text.scope,
              codeChallenge |-> Member(text.request, "codeChallenge"),
              codeChallengeMethod |-> Member(text.request, "codeChallengeMethod")]]

PendingKey(state) == <<"pending:">> \o state

KVPut(store, key, value, ttl, t) ==
    [k \in DOMAIN store \cup {key} |->
        IF k = key THEN [value |-> value, expiration |-> NowSeconds(t) + ttl]
        ELSE store[k]]

\* get returns null (the empty string here) for a missing or an expired key
KVGet(store, key, t) ==
    IF key \in DOMAIN store /\ NowSeconds(t) < store[key].expiration
    THEN store[key].value
    ELSE <<>>

EmptyStore == [k \in {} |-> <<>>]

KVDelete(store, key) == [k \in DOMAIN store \ {key} |-> store[k]]


-----------------------------------------------------------------------------
(* PKCE values (src/src/lib/pkce.ts).  The 128 and 256 random bits are      *)
(* modelled as values never returned before.                                *)

States == {<<"s1">>, <<"s2">>}

Verifiers == {<<"v1">>, <<"v2">>}

\* a plausible slip: the "plain" method, the challenge is the verifier itself
generateCodeChallengePlain(verifier) == verifier

generateCodeChallenge(verifier) == <<"S256(">> \o verifier \o <<")">>

-----------------------------------------------------------------------------
(* The downstream site and what discovery can return for it                 *)

SiteInput == <<"user.example">>

SiteMe == <<"https://", "user.example/">>

MicropubUrl == <<"https://", "user.example/micropub">>

MediaUrl == <<"https://", "user.example/media">>

AuthorizationUrl == <<"https://", "auth.example/authorize">>

TokenUrl == <<"https://", "auth.example/token">>

NoEndpoints ==
    [me |-> undefined, micropubEndpoint |-> undefined, mediaEndpoint |-> undefined,
     authorizationEndpoint |-> undefined, tokenEndpoint |-> undefined]

\* discoverEndpoints never fills in mediaEndpoint
DiscoveryResults ==
    {[me |-> SiteMe, micropubEndpoint |-> mp, mediaEndpoint |-> undefined,
      authorizationEndpoint |-> az, tokenEndpoint |-> tk] :
        mp \in {undefined, MicropubUrl},
        az \in {undefined, AuthorizationUrl},
        tk \in {undefined, TokenUrl}}

FullDiscovery ==
    [me |-> SiteMe, micropubEndpoint |-> MicropubUrl, mediaEndpoint |-> undefined,
     authorizationEndpoint |-> AuthorizationUrl, tokenEndpoint |-> TokenUrl]

Returned(result) == [threw |-> FALSE, error |-> NoError, result |-> result]

Threw(err) == [threw |-> TRUE, error |-> err, result |-> NoEndpoints]

\* the outcomes of discoverEndpoints(me): it throws when the site cannot be
\* fetched, and otherwise returns whatever the site advertises
DiscoveryFailures ==
    {Threw(Error(<<"Failed to fetch ", "https://", "user.example/", ": 404 Not Found">>)),
     Threw(TypeError(<<"fetch failed">>))}

DiscoveryOutcomes == DiscoveryFailures \cup {Returned(r) : r \in DiscoveryResults}

-----------------------------------------------------------------------------
(* The upstream authorization request, as parseAuthRequest hands it over    *)

BaseUrl == <<"https://", "mcp.example">>

ClientId == <<"https://", "client.example/">>

ClientRedirectUris == {<<"https://", "client.example/cb">>, <<"client.example/cb">>, <<>>}

UpstreamScopes == {<<>>, <<<<"create">>, <<"update">>>>}

AuthRequest(redirectUri, scope) ==
    [responseType |-> <<"code">>, clientId |-> ClientId, redirectUri |-> redirectUri,
     state |-> <<"u1">>, scope |-> scope,
     codeChallenge |-> <<"upstream-challenge">>, codeChallengeMethod |-> <<"S256">>]

AuthRequests == {AuthRequest(u, sc) : u \in ClientRedirectUris, sc \in UpstreamScopes}

DefaultScope == <<"create", " ", "update", " ", "delete", " ", "media">>

\* oauthReq.scope?.join(" ") || "create update delete media"
ScopeDisplay(oauthReq) == OrElse(Join(oauthReq.scope, " "), DefaultScope)


-----------------------------------------------------------------------------
(* IndieAuth flow client (src/src/lib/indieauth.ts)                         *)

\* the index of the first sym in str, 0 when there is none
IndexOf(str, sym) ==
    IF \E i \in 1..Len(str) : str[i] = sym
    THEN CHOOSE i \in 1..Len(str) : str[i] = sym /\ \A j \in 1..(i - 1) : str[j] # sym
    ELSE 0

\* one name=value piece of a query string
ParseParam(piece) ==
    LET eq == IndexOf(piece, "=")
        name  == IF eq = 0 THEN piece ELSE SubSeq(piece, 1, eq - 1)
        value == IF eq = 0 THEN <<>> ELSE SubSeq(piece, eq + 1, Len(piece))
    IN  Param(IF name = <<>> THEN "" ELSE name[1], value)

\* new URL(str): what precedes the first ? and the searchParams after it
ParseUrl(str) ==
    LET q == IndexOf(str, "?")
        pieces == IF q = 0 \/ q = Len(str) THEN <<>>
                  ELSE SelectSeq(Split(SubSeq(str, q + 1, Len(str)), "&"),
                                 LAMBDA piece : piece # <<>>)
    IN  [endpoint |-> IF q = 0 THEN str ELSE SubSeq(str, 1, q - 1),
         query    |-> [i \in 1..Len(pieces) |-> ParseParam(pieces[i])]]

\* url.searchParams.set(name, value): the first parameter of that name takes
\* the value and the other ones of that name go; without one it is appended
SearchParamsSet(query, name, value) ==
    LET first == IF \E i \in 1..Len(query) : query[i].name = name
                 THEN CHOOSE i \in 1..Len(query) :
                        /\ query[i].name = name
                        /\ \A j \in 1..(i - 1) : query[j].name # name
                 ELSE 0
    IN  IF first = 0 THEN Append(query, Param(name, value))
        ELSE SubSeq(query, 1, first - 1) \o <<Param(name, value)>>
             \o SelectSeq(SubSeq(query, first + 1, Len(query)),
                          LAMBDA p : p.name # name)

\* a plausible slip: the URL is put together from the endpoint's path alone
buildAuthorizationUrlFreshQuery(authorizationEndpoint, options) ==
    [endpoint |-> ParseUrl(authorizationEndpoint).endpoint,
     query    |-> <<Param("response_type", <<"code">>),
                    Param("client_id", options.clientId),
                    Param("redirect_uri", options.redirectUri),
                    Param("me", options.me),
                    Param("scope", options.scope),
                    Param("state", options.state),
                    Param("code_challenge", options.codeChallenge),
                    Param("code_challenge_method", <<"S256">>)>>]

buildAuthorizationUrl(authorizationEndpoint, options) ==
    LET url == ParseUrl(authorizationEndpoint)
        q1  == SearchParamsSet(url.query, "response_type", <<"code">>)
        q2  == SearchParamsSet(q1, "client_id", options.clientId)
        q3  == SearchParamsSet(q2, "redirect_uri", options.redirectUri)
        q4  == SearchParamsSet(q3, "me", options.me)
        q5  == SearchParamsSet(q4, "scope", options.scope)
        q6  == SearchParamsSet(q5, "state", options.state)
        q7  == SearchParamsSet(q6, "code_challenge", options.codeChallenge)
        q8  == SearchParamsSet(q7, "code_challenge_method", <<"S256">>)
    IN  [endpoint |-> url.endpoint, query |-> q8]

-----------------------------------------------------------------------------
(* POST /authorize: handleLoginSubmit                                       *)

NoMicropubMessage ==
    <<"Your website doesn", "'", "t appear to support Micropub. ",
      "Make sure you have a Micropub endpoint configured.">>

NoIndieAuthMessage ==
    <<"Couldn", "'", "t find IndieAuth endpoints on your website. ",
      "Make sure you have authorization_endpoint and token_endpoint configured.">>

\* a plausible slip: the PKCE members of the upstream request are not copied
StoredOAuthRequestNoPkce(oauthReq) ==
    [responseType |-> oauthReq.responseType,
     clientId |-> oauthReq.clientId,
     redirectUri |-> oauthReq.redirectUri,
     state |-> oauthReq.state,
     scope |-> oauthReq.scope,
     codeChallenge |-> undefined,
     codeChallengeMethod |-> undefined]

\* lines 206-214: the serialisable copy of the upstream request
StoredOAuthRequest(oauthReq) ==
    [responseType |-> oauthReq.responseType,
     clientId |-> oauthReq.clientId,
     redirectUri |-> oauthReq.redirectUri,
     state |-> oauthReq.state,
     scope |-> oauthReq.scope,
     codeChallenge |-> oauthReq.codeChallenge,
     codeChallengeMethod |-> oauthReq.codeChallengeMethod]

PendingAuth(endpoints, oauthReq, codeVerifier, t) ==
    [me |-> endpoints.me,
     micropubEndpoint |-> endpoints.micropubEndpoint,
     mediaEndpoint |-> endpoints.mediaEndpoint,
     authorizationEndpoint |-> endpoints.authorizationEndpoint,
     tokenEndpoint |-> endpoints.tokenEndpoint,
     codeVerifier |-> codeVerifier,
     clientRedirectUri |-> oauthReq.redirectUri,
     requestedScope |-> ScopeDisplay(oauthReq),
     createdAt |-> NowSeconds(t) * 1000,
     storedOAuthReq |-> StoredOAuthRequest(oauthReq)]

\* a plausible slip: the record is written without its expirationTtl
StorePendingForever(store, state, pendingAuth, t) ==
    [k \in DOMAIN store \cup {PendingKey(state)} |->
        IF k = PendingKey(state)
        THEN [value |-> JSONStringify(pendingAuth),
              expiration |-> NowSeconds(t + MaxTicks + 1) + PENDING_AUTH_TTL]
        ELSE store[k]]

\* env.OAUTH_KV.put(`pending:${state}`, JSON.stringify(pendingAuth), {expirationTtl})
StorePending(store, state, pendingAuth, t) ==
    KVPut(store, PendingKey(state), JSONStringify(pendingAuth), PENDING_AUTH_TTL, t)

\* buildOAuthQueryString: the upstream request as query parameters
buildOAuthQueryString(oauthReq) ==
    <<Param("response_type", oauthReq.responseType),
      Param("client_id", oauthReq.clientId),
      Param("redirect_uri", oauthReq.redirectUri),
      Param("state", oauthReq.state)>>
    \o (IF Len(oauthReq.scope) > 0
        THEN <<Param("scope", Join(oauthReq.scope, " "))>> ELSE <<>>)
    \o (IF Truthy(oauthReq.codeChallenge)
        THEN <<Param("code_challenge", oauthReq.codeChallenge)>> ELSE <<>>)
    \o (IF Truthy(oauthReq.codeChallengeMethod)
        THEN <<Param("code_challenge_method", oauthReq.codeChallengeMethod)>> ELSE <<>>)

\* GET /authorize: the form posts back to /authorize with the upstream
\* request in its query string
renderLoginPage(oauthReq) ==
    [type   |-> "html",
     status |-> 200,
     body   |-> <<Lit("<h1>Sign in with your website</h1><form method=\"POST\">"),
                  Lit("<input type=\"url\" name=\"me\"></form>"),
                  Lit("<p>Requested permissions: <span class=\"scopes\">"),
                  Dyn(ScopeDisplay(oauthReq)),
                  Lit("</span></p>")>>,
     url    |-> [endpoint |-> <<"/authorize">>, query |-> buildOAuthQueryString(oauthReq)]]

\* a plausible slip: the exception is rethrown instead of rendered
LoginCatchRethrow(error) == Uncaught(error)

\* the catch of handleLoginSubmit
LoginCatch(error) ==
    renderErrorPage(<<"Failed to connect to your website: ">> \o ErrorToString(error))

\* a plausible slip: the capability checks are left out and the redirect is
\* built from whatever discovery returned
LoginEndpointsUnchecked(endpoints) == <<>>

\* the two capability checks on the discovery result: the message of the
\* error page to render, or the empty string when both checks pass
LoginEndpointsProblem(endpoints) ==
    IF Falsy(endpoints.micropubEndpoint) THEN NoMicropubMessage
    ELSE IF Falsy(endpoints.authorizationEndpoint) \/ Falsy(endpoints.tokenEndpoint)
         THEN NoIndieAuthMessage
    ELSE <<>>

\* The handler's result: its response and the store it leaves.
\*   me         the form field
\*   discovery  the outcome of discoverEndpoints(me)
\*   putOk      whether env.OAUTH_KV.put succeeds
handleLoginSubmit(store, t, me, oauthReq, baseUrl, discovery, state, codeVerifier, putOk) ==
    IF Falsy(me)
    THEN [response |-> renderErrorPage(<<"Please enter your website URL">>),
          store |-> store, generated |-> FALSE]
    ELSE IF discovery.threw
    THEN [response |-> LoginCatch(discovery.error), store |-> store, generated |-> FALSE]
    ELSE LET endpoints == discovery.result
             problem == LoginEndpointsProblem(endpoints)
             pendingAuth == PendingAuth(endpoints, oauthReq, codeVerifier, t)
             authUrl == buildAuthorizationUrl(endpoints.authorizationEndpoint,
                            [clientId |-> baseUrl \o <<"/">>,
                             redirectUri |-> baseUrl \o <<"/indieauth-callback">>,
                             me |-> endpoints.me,
                             scope |-> ScopeDisplay(oauthReq),
                             state |-> state,
                             codeChallenge |-> generateCodeChallenge(codeVerifier)])
         IN  IF problem # <<>>
             THEN [response |-> renderErrorPage(problem), store |-> store,
                   generated |-> FALSE]
             ELSE IF ~putOk
             THEN [response |-> LoginCatch(Error(<<"KV PUT failed">>)), store |-> store,
                   generated |-> TRUE]
             ELSE IF ~IsAbsoluteUrl(endpoints.authorizationEndpoint)
             THEN \* new URL(authorizationEndpoint) throws, after the put
                  [response |-> LoginCatch(TypeError(<<"Invalid URL">>)),
                   store |-> StorePending(store, state, pendingAuth, t),
                   generated |-> TRUE]
             ELSE [response |-> Redirect(authUrl),
                   store |-> StorePending(store, state, pendingAuth, t),
                   generated |-> TRUE]


-----------------------------------------------------------------------------
(* The token endpoint's answer to the code exchange, and                    *)
(* exchangeCodeForToken on it (src/src/lib/indieauth.ts)                    *)

AccessToken == <<"AT-secret">>

RefreshToken == <<"RT-secret">>

NoToken ==
    [access_token |-> undefined, token_type |-> undefined, scope |-> undefined,
     me |-> undefined, expires_in |-> 0, refresh_token |-> undefined,
     error |-> undefined, error_description |-> undefined]

\* an HTTP response: whether fetch resolved at all, the status, whether the
\* body parses as JSON, the parsed body, and what response.text() gives
\* after response.json() has failed (undefined: it throws, the body is used)
HttpResponse(status, isJson, body, text) ==
    [network |-> TRUE, status |-> status, ok |-> status \in {"200", "201", "202", "204"},
     json |-> isJson, body |-> body, text |-> text]

NetworkFailure ==
    [network |-> FALSE, status |-> "0", ok |-> FALSE, json |-> FALSE,
     body |-> NoToken, text |-> undefined]

TokenThrew(err) == [threw |-> TRUE, error |-> err, token |-> NoToken]

TokenReturned(token) == [threw |-> FALSE, error |-> NoError, token |-> token]

\* a plausible slip: the error code is preferred to its description
ExchangeErrorMessageCodeFirst(response) ==
    LET generic == <<"Token exchange failed: HTTP ", response.status>>
    IN  IF response.json
        THEN IF Truthy(response.body.error)
             THEN <<"Token exchange failed: ">> \o response.body.error
             ELSE IF Truthy(response.body.error_description)
             THEN <<"Token exchange failed: ">> \o response.body.error_description
             ELSE generic
        ELSE IF Truthy(response.text)
             THEN <<"Token exchange failed: ">> \o response.text
             ELSE generic

\* lines 95-113: the message of the rejection on a non-2xx answer
ExchangeErrorMessage(response) ==
    LET generic == <<"Token exchange failed: HTTP ", response.status>>
    IN  IF response.json
        THEN IF Truthy(response.body.error_description)
             THEN <<"Token exchange failed: ">> \o response.body.error_description
             ELSE IF Truthy(response.body.error)
             THEN <<"Token exchange failed: ">> \o response.body.error
             ELSE generic
        ELSE IF Truthy(response.text)
             THEN <<"Token exchange failed: ">> \o response.text
             ELSE generic

\* a plausible slip: me is not looked at
TokenValidationErrorNoMe(tokenResponse) ==
    IF Falsy(tokenResponse.access_token)
    THEN <<"Token response missing access_token">>
    ELSE <<>>

\* lines 119-125: the required fields of a token response; <<>> when both
\* are there
TokenValidationError(tokenResponse) ==
    IF Falsy(tokenResponse.access_token)
    THEN <<"Token response missing access_token">>
    ELSE IF Falsy(tokenResponse.me)
    THEN <<"Token response missing me URL">>
    ELSE <<>>

exchangeCodeForToken(response) ==
    IF ~response.network THEN TokenThrew(TypeError(<<"fetch failed">>))
    ELSE IF ~response.ok
    THEN TokenThrew(Error(ExchangeErrorMessage(response)))
    ELSE IF ~response.json
    THEN TokenThrew([name |-> "SyntaxError", message |-> <<"Unexpected token ", "<">>])
    ELSE IF TokenValidationError(response.body) # <<>>
    THEN TokenThrew(Error(TokenValidationError(response.body)))
    ELSE TokenReturned(response.body)

\* the scope strings a token endpoint may grant
GrantedScopes ==
    {undefined, <<>>, <<"create">>, <<"create", " ", "update">>,
     <<"create", " ", " ", "update">>}

TokenBody(at, me, scope, expires, refresh) ==
    [access_token |-> at, token_type |-> <<"Bearer">>, scope |-> scope, me |-> me,
     expires_in |-> expires, refresh_token |-> refresh,
     error |-> undefined, error_description |-> undefined]

ErrorBody(error, description) ==
    [NoToken EXCEPT !.error = error, !.error_description = description]

GoodTokenResponse ==
    HttpResponse("200", TRUE,
        TokenBody(AccessToken, SiteMe, <<"create", " ", "update">>, 3600, RefreshToken),
        undefined)

RejectedTokenResponse ==
    HttpResponse("400", TRUE, ErrorBody(<<"invalid_grant">>, <<"The code has expired">>),
        undefined)

TokenSuccesses ==
    {HttpResponse("200", TRUE, TokenBody(AccessToken, SiteMe, sc, e[1], e[2]), undefined) :
        sc \in GrantedScopes, e \in {<<3600, RefreshToken>>, <<0, undefined>>}}

TokenFailures ==
    {NetworkFailure,
     RejectedTokenResponse,
     HttpResponse("400", TRUE, ErrorBody(<<"invalid_grant">>, undefined), undefined),
     HttpResponse("500", TRUE, ErrorBody(undefined, undefined), undefined),
     HttpResponse("502", FALSE, NoToken, <<"<", "h1", ">", "Bad Gateway">>),
     HttpResponse("502", FALSE, NoToken, undefined),
     HttpResponse("200", FALSE, NoToken, undefined),
     HttpResponse("200", TRUE,
         TokenBody(undefined, SiteMe, <<"create">>, 0, undefined), undefined),
     HttpResponse("200", TRUE,
         TokenBody(AccessToken, undefined, <<"create">>, 0, RefreshToken), undefined)}

TokenResponses == TokenSuccesses \cup TokenFailures


-----------------------------------------------------------------------------
(* GET /indieauth-callback: handleIndieAuthCallback, one step per await     *)

MissingParametersMessage == <<"Missing authorization code or state">>

SessionExpiredMessage == <<"Authorization session expired. Please try again.">>

\* a plausible slip: the error parameter is not looked at
CallbackParamsIgnoreError(code, state, error, errorDescription) ==
    IF Falsy(code) \/ Falsy(state) THEN MissingParametersMessage ELSE <<>>

\* a plausible slip: a request without state goes on to the store
CallbackParamsCodeOnly(code, state, error, errorDescription) ==
    IF Truthy(error) THEN OrElse(errorDescription, error)
    ELSE IF Falsy(code) THEN MissingParametersMessage
    ELSE <<>>

\* the checks on the query parameters: the message of the error page to
\* render, or the empty string when the request goes on to the store
CallbackParamsProblem(code, state, error, errorDescription) ==
    IF Truthy(error) THEN OrElse(errorDescription, error)
    ELSE IF Falsy(code) \/ Falsy(state) THEN MissingParametersMessage
    ELSE <<>>

\* a plausible slip: the delete is left out
DeletePendingNothing(store, state) == store

\* a plausible slip: every pending record is removed
DeletePendingAll(store, state) ==
    [k \in {j \in DOMAIN store : SubSeq(j, 1, 1) # <<"pending:">>} |-> store[k]]

\* a plausible slip: the delete is given the bare state, not the record's key
DeletePendingBareState(store, state) == KVDelete(store, state)

\* env.OAUTH_KV.delete(`pending:${state}`)
DeletePending(store, state) == KVDelete(store, PendingKey(state))

\* a plausible slip: the exception is rethrown instead of rendered
CallbackCatchRethrow(error) == Uncaught(error)

\* the catch of handleIndieAuthCallback
CallbackCatch(error) ==
    renderErrorPage(<<"Failed to complete authentication: ">> \o ErrorToString(error))

TokenRequest(pending, code, baseUrl) ==
    [endpoint |-> pending.tokenEndpoint,
     grant_type |-> <<"authorization_code">>,
     code |-> code,
     client_id |-> baseUrl \o <<"/">>,
     redirect_uri |-> baseUrl \o <<"/indieauth-callback">>,
     code_verifier |-> pending.codeVerifier]

\* a plausible slip: the token is put in the query string of the config request
ConfigRequestTokenInUrl(pending, token) ==
    [url |-> [endpoint |-> pending.micropubEndpoint,
              query |-> <<Param("q", <<"config">>),
                          Param("access_token", token.access_token)>>],
     authorization |-> <<>>]

ConfigRequest(pending, token) ==
    [url |-> [endpoint |-> pending.micropubEndpoint,
              query |-> <<Param("q", <<"config">>)>>],
     authorization |-> <<"Bearer ">> \o token.access_token]

ConfigBody(mediaEndpoint) == [media_endpoint |-> mediaEndpoint]

GoodConfigResponse == HttpResponse("200", TRUE, ConfigBody(MediaUrl), undefined)

ConfigResponses ==
    {NetworkFailure,
     HttpResponse("200", TRUE, ConfigBody(MediaUrl), undefined),
     HttpResponse("200", TRUE, ConfigBody(undefined), undefined),
     HttpResponse("200", FALSE, ConfigBody(undefined), undefined),
     HttpResponse("403", TRUE, ConfigBody(undefined), undefined)}

\* a plausible slip: the body is read whatever the status
ConfigMediaEndpointAnyStatus(mediaEndpoint, response) ==
    IF response.network /\ response.json
    THEN response.body.media_endpoint
    ELSE mediaEndpoint

\* lines 310-316: the media endpoint after the config query
ConfigMediaEndpoint(mediaEndpoint, response) ==
    IF response.network /\ response.ok /\ response.json
    THEN response.body.media_endpoint
    ELSE mediaEndpoint

AuthProps(token, pending, mediaEndpoint, t) ==
    [me |-> token.me,
     micropubEndpoint |-> pending.micropubEndpoint,
     mediaEndpoint |-> mediaEndpoint,
     indieAuthToken |-> token.access_token,
     tokenType |-> token.token_type,
     scope |-> token.scope,
     refreshToken |-> token.refresh_token,
     tokenExpiresAt |->
         IF token.expires_in # 0
         THEN <<NowSeconds(t) * 1000 + token.expires_in * 1000>>
         ELSE <<>>,
     tokenEndpoint |-> pending.tokenEndpoint]

\* the argument of env.OAUTH_PROVIDER.completeAuthorization
CompleteArgs(token, pending, mediaEndpoint, t) ==
    [request |-> pending.storedOAuthReq,
     userId |-> token.me,
     metadata |-> [me |-> token.me, scope |-> token.scope,
                   authorizedAt |-> NowSeconds(t) * 1000],
     scope |-> Split(token.scope, " "),
     props |-> AuthProps(token, pending, mediaEndpoint, t)]

InvalidSessionMessage ==
    <<"Authorization session is invalid. Missing required OAuth parameters. ",
      "Please try again.">>

InvalidConfigurationMessage ==
    <<"Invalid OAuth configuration. redirectUri or clientId is not a valid URL. ",
      "Please try again.">>

\* a plausible slip: the two values are only tested for presence
StoredRequestProblemPresenceOnly(storedOAuthReq) ==
    IF Falsy(storedOAuthReq.redirectUri) \/ Falsy(storedOAuthReq.clientId)
    THEN InvalidSessionMessage
    ELSE <<>>

\* the two checks on the stored upstream request: the message of the error
\* page to render, or the empty string when both pass
StoredRequestProblem(storedOAuthReq) ==
    IF Falsy(storedOAuthReq.redirectUri) \/ Falsy(storedOAuthReq.clientId)
    THEN InvalidSessionMessage
    ELSE IF ~IsAbsoluteUrl(storedOAuthReq.redirectUri) \/ ~IsAbsoluteUrl(storedOAuthReq.clientId)
    THEN InvalidConfigurationMessage
    ELSE <<>>

\* what the upstream provider hands back: the URL that resumes the tool
\* client's flow
RedirectTo(request) ==
    [endpoint |-> request.redirectUri,
     query |-> <<Param("code", <<"upstream-code">>), Param("state", request.state)>>]

IdleCallback ==
    [pc |-> "idle", code |-> undefined, state |-> undefined,
     error |-> undefined, errorDescription |-> undefined,
     baseUrl |-> undefined, arrivedAt |-> 0, late |-> FALSE,
     pendingJson |-> <<>>, deleted |-> FALSE,
     token |-> NoToken, mediaEndpoint |-> undefined,
     configResponse |-> NetworkFailure,
     exchanges |-> <<>>, configRequests |-> <<>>, completions |-> <<>>,
     response |-> NoResponse]

Callbacks == 1..MaxCallbacks

Done(slot, response) == [slot EXCEPT !.pc = "done", !.response = response]

\* lines 320-366 up to the await: the checks on the stored request and the
\* call of completeAuthorization, in one piece once the media endpoint is
\* settled
BeforeComplete(slot, t) ==
    LET pending == JSONParse(slot.pendingJson)
        problem == StoredRequestProblem(pending.storedOAuthReq)
        args == CompleteArgs(slot.token, pending, slot.mediaEndpoint, t)
    IN  IF problem # <<>> THEN Done(slot, renderErrorPage(problem))
        ELSE IF slot.token.scope = undefined
        THEN Done(slot, CallbackCatch(TypeError(
                 <<"Cannot read properties of undefined (reading ", "'", "split", "'", ")">>)))
        ELSE [slot EXCEPT !.pc = "complete", !.completions = Append(@, args)]


-----------------------------------------------------------------------------
(* The actions                                                              *)

NoLogin ==
    [me |-> undefined, discovery |-> Threw(NoError), state |-> undefined,
     stored |-> {}, putOk |-> TRUE, response |-> NoResponse]

\* generateCodeVerifier(): a value not returned before (which one makes no
\* difference to the handlers: the first unused one)
FreshVerifier ==
    CHOOSE v \in Verifiers : v \notin {issued[s].codeVerifier : s \in DOMAIN issued}

\* POST /authorize on a request whose URL has the origin baseUrl (lines
\* 48-51 of handleAuthorize).  generateState() returns a value not returned
\* before.
LoginSubmitAt(baseUrl, me, oauthReq, discovery, putOk) ==
    \E state \in States \ DOMAIN issued :
    \E codeVerifier \in {FreshVerifier} :
        LET result == handleLoginSubmit(kv, now, me, oauthReq, baseUrl, discovery,
                                        state, codeVerifier, putOk)
        IN  /\ kv' = result.store
            /\ issued' = IF result.generated
                         THEN [s \in DOMAIN issued \cup {state} |->
                                  IF s = state
                                  THEN [codeVerifier |-> codeVerifier, at |-> now,
                                        oauthReq |-> oauthReq,
                                        endpoints |-> discovery.result,
                                        authUrl |-> result.response.url]
                                  ELSE issued[s]]
                         ELSE issued
            /\ login' = [me |-> me,
                         discovery |-> IF Falsy(me) THEN Threw(NoError) ELSE discovery,
                         state |-> IF result.generated THEN state ELSE undefined,
                         stored |-> {k \in DOMAIN result.store :
                                        k \notin DOMAIN kv \/ result.store[k] # kv[k]},
                         putOk |-> putOk \/ ~result.generated,
                         response |-> result.response]
            /\ UNCHANGED <<now, processed, cb, page, call, session, flows>>

LoginSubmit(me, oauthReq, discovery, putOk) ==
    LoginSubmitAt(BaseUrl, me, oauthReq, discovery, putOk)

\* GET /authorize
LoginPage(oauthReq) ==
    /\ login' = [NoLogin EXCEPT !.response = renderLoginPage(oauthReq)]
    /\ UNCHANGED <<now, kv, issued, processed, cb, page, call, session, flows>>

\* the browser has its answer; nothing of the request remains
LoginForget ==
    /\ login # NoLogin
    /\ login' = NoLogin
    /\ UNCHANGED <<now, kv, issued, processed, cb, page, call, session, flows>>

\* a step of callback r that leaves the slot as `slot`
Step(r, slot) ==
    /\ cb' = [cb EXCEPT ![r] = slot]
    /\ processed' = IF slot.pc = "done" /\ slot.pendingJson # <<>>
                    THEN processed \cup {slot.state}
                    ELSE processed

\* lines 64-66 of handleCallback and 263-276: the request arrives at a URL
\* with the origin baseUrl and its parameters are checked
CallbackReceiveAt(baseUrl, r, code, state, error, errorDescription) ==
    /\ cb[r].pc = "idle"
    /\ LET problem == CallbackParamsProblem(code, state, error, errorDescription)
           slot == [cb[r] EXCEPT !.code = code, !.state = state, !.error = error,
                                 !.errorDescription = errorDescription,
                                 !.baseUrl = baseUrl,
                                 !.arrivedAt = now,
                                 !.late = state \in processed]
       IN  Step(r, IF problem # <<>>
                   THEN Done(slot, renderErrorPage(problem))
                   ELSE [slot EXCEPT !.pc = "get"])
    /\ UNCHANGED <<now, kv, issued, login, page, call, session, flows>>

CallbackReceive(r, code, state, error, errorDescription) ==
    CallbackReceiveAt(BaseUrl, r, code, state, error, errorDescription)

\* lines 279-282: env.OAUTH_KV.get
CallbackGet(r) ==
    /\ cb[r].pc = "get"
    /\ LET pendingJson == KVGet(kv, PendingKey(cb[r].state), now)
       IN  Step(r, IF pendingJson = <<>>
                   THEN Done(cb[r], renderErrorPage(SessionExpiredMessage))
                   ELSE [cb[r] EXCEPT !.pc = "delete", !.pendingJson = pendingJson])
    /\ UNCHANGED <<now, kv, issued, login, page, call, session, flows>>

\* lines 285-287: env.OAUTH_KV.delete
CallbackDelete(r) ==
    /\ cb[r].pc = "delete"
    /\ kv' = DeletePending(kv, cb[r].state)
    /\ Step(r, [cb[r] EXCEPT !.pc = "exchange",
                             !.deleted = PendingKey(cb[r].state) \notin DOMAIN kv'])
    /\ UNCHANGED <<now, issued, login, page, call, session, flows>>

\* lines 289-317: the token exchange, answered by `response`
CallbackExchange(r, response) ==
    /\ cb[r].pc = "exchange"
    /\ LET pending == JSONParse(cb[r].pendingJson)
           result == exchangeCodeForToken(response)
           sent == [cb[r] EXCEPT !.exchanges =
                       Append(@, TokenRequest(pending, cb[r].code, cb[r].baseUrl))]
           got == [sent EXCEPT !.token = result.token,
                               !.mediaEndpoint = pending.mediaEndpoint]
       IN  Step(r, IF result.threw THEN Done(sent, CallbackCatch(result.error))
                   ELSE IF Falsy(got.mediaEndpoint) /\ Truthy(pending.micropubEndpoint)
                           /\ IsAbsoluteUrl(pending.micropubEndpoint)
                   THEN [got EXCEPT !.pc = "config"]
                   ELSE BeforeComplete(got, now))
    /\ UNCHANGED <<now, kv, issued, login, page, call, session, flows>>

\* lines 301-317: the Micropub config query, answered by `response`
CallbackConfig(r, response) ==
    /\ cb[r].pc = "config"
    /\ LET pending == JSONParse(cb[r].pendingJson)
       IN  Step(r, BeforeComplete(
               [cb[r] EXCEPT !.configRequests = Append(@, ConfigRequest(pending, cb[r].token)),
                             !.configResponse = response,
                             !.mediaEndpoint = ConfigMediaEndpoint(@, response)],
               now))
    /\ UNCHANGED <<now, kv, issued, login, page, call, session, flows>>

\* lines 356-373: completeAuthorization returns (ok) or throws
CallbackComplete(r, ok) ==
    /\ cb[r].pc = "complete"
    /\ LET args == cb[r].completions[Len(cb[r].completions)]
       IN  Step(r, IF ok THEN Done(cb[r], Redirect(RedirectTo(args.request)))
                   ELSE Done(cb[r], CallbackCatch(Error(<<"Invalid client">>))))
    /\ UNCHANGED <<now, kv, issued, login, page, call, session, flows>>

\* the browser has its answer; nothing of the request remains
CallbackForget(r) ==
    /\ cb[r].pc = "done"
    /\ cb' = [cb EXCEPT ![r] = IdleCallback]
    /\ UNCHANGED <<now, kv, issued, processed, login, page, call, session, flows>>

Tick ==
    /\ now < MaxTicks
    /\ now' = now + 1
    /\ UNCHANGED <<kv, issued, processed, login, cb, page, call, session, flows>>


-----------------------------------------------------------------------------
(* Rendering pages from raw strings: renderErrorPage, and the legacy        *)
(* /callback page of the session-token variant (src/src/index.ts)           *)

Alphabet == HtmlSpecial \cup {"a"}

Messages == UNION {[1..n -> Alphabet] : n \in 0..MaxMsgLen}

LegacyValues == {undefined, <<>>} \cup {<<c>> : c \in Alphabet}

\* index.ts carries its own copy of escapeHtml
legacyEscapeHtml(str) ==
    [i \in 1..Len(str) |->
        IF str[i] \in HtmlSpecial THEN htmlEscapes(str[i]) ELSE str[i]]

handleOAuthCallback(code, state, error, errorDescription) ==
    IF Truthy(error)
    THEN [type |-> "html", status |-> 400,
          body |-> <<Lit("<h1>Authorization Failed</h1><p><strong>Error:</strong> "),
                     Dyn(legacyEscapeHtml(error)),
                     Lit("</p>")>>
                   \o (IF Truthy(errorDescription)
                       THEN <<Lit("<p><strong>Description:</strong> "),
                              Dyn(legacyEscapeHtml(errorDescription)),
                              Lit("</p>")>>
                       ELSE <<>>),
          url |-> NoUrl]
    ELSE IF Falsy(code) \/ Falsy(state)
    THEN [type |-> "html", status |-> 400,
          body |-> <<Lit("<h1>Missing Parameters</h1>")>>,
          url |-> NoUrl]
    ELSE [type |-> "html", status |-> 200,
          body |-> <<Lit("<h1>Authorization Successful</h1><div class=\"code-value\">"),
                     Dyn(legacyEscapeHtml(code)),
                     Lit("</div><div class=\"code-value\">"),
                     Dyn(legacyEscapeHtml(state)),
                     Lit("</div>")>>,
          url |-> NoUrl]

NoPage == [route |-> "none", inputs |-> <<>>, response |-> NoResponse]

RenderError(message) ==
    /\ page = NoPage
    /\ page' = [route |-> "error", inputs |-> <<message>>,
                response |-> renderErrorPage(message)]
    /\ UNCHANGED <<now, kv, issued, processed, login, cb, call, session, flows>>

LegacyCallback(code, state, error, errorDescription) ==
    /\ page = NoPage
    /\ page' = [route |-> "/callback", inputs |-> <<code, state, error, errorDescription>>,
                response |-> handleOAuthCallback(code, state, error, errorDescription)]
    /\ UNCHANGED <<now, kv, issued, processed, login, cb, call, session, flows>>

\* the browser has its answer; nothing of the request remains
PageForget ==
    /\ page # NoPage
    /\ page' = NoPage
    /\ UNCHANGED <<now, kv, issued, processed, login, cb, call, session, flows>>

-----------------------------------------------------------------------------
(* The specifications                                                       *)

NoCall == [fn |-> "none", inputs |-> <<>>, output |-> <<>>]

\* MicropubMcpAgent.initialState = {}: every member reads as undefined
\* (tokenExpiresAt: no number)
initialState ==
    [me |-> undefined, micropubEndpoint |-> undefined, mediaEndpoint |-> undefined,
     authorizationEndpoint |-> undefined, tokenEndpoint |-> undefined,
     accessToken |-> undefined, tokenType |-> undefined, scope |-> undefined,
     refreshToken |-> undefined, tokenExpiresAt |-> <<>>,
     authState |-> undefined, codeVerifier |-> undefined]

\* a flow of the session-token variant: the state and the verifier that
\* micropub_auth_start generated together
Flow(state, codeVerifier) == [state |-> state, codeVerifier |-> codeVerifier]

\* no flow has been started: `all` is every flow started so far, `latest`
\* the one started last
NoFlows == [all |-> {}, latest |-> Flow(undefined, undefined)]

Init ==
    /\ now = 0
    /\ kv = EmptyStore
    /\ issued = [s \in {} |-> [codeVerifier |-> <<>>, at |-> 0]]
    /\ processed = {}
    /\ login = NoLogin
    /\ cb = [r \in Callbacks |-> IdleCallback]
    /\ page = NoPage
    /\ call = NoCall
    /\ session = initialState
    /\ flows = NoFlows

Codes == {<<"c1">>, <<"c2">>}

GoodAuthRequest == AuthRequest(<<"https://", "client.example/cb">>, <<<<"create">>, <<"update">>>>)

\* Spec: the bridge under concurrent requests.  Up to MaxCallbacks callbacks
\* are in flight at once and interleave at every await; the inputs are one
\* representative of each outcome.
Next ==
    \/ LoginSubmit(SiteInput, GoodAuthRequest, Returned(FullDiscovery), TRUE)
    \/ \E r \in Callbacks, code \in Codes, state \in States :
           CallbackReceive(r, code, state, undefined, undefined)
    \/ \E r \in Callbacks : CallbackGet(r)
    \/ \E r \in Callbacks : CallbackDelete(r)
    \/ \E r \in Callbacks, response \in {GoodTokenResponse, RejectedTokenResponse} :
           CallbackExchange(r, response)
    \/ \E r \in Callbacks, response \in {GoodConfigResponse} :
           CallbackConfig(r, response)
    \/ \E r \in Callbacks : CallbackComplete(r, TRUE)
    \/ \E r \in Callbacks : CallbackForget(r)

Spec == Init /\ [][Next]_vars

\* SpecTtl: the bridge while time passes; one callback at a time.
NextTtl ==
    \/ LoginSubmit(SiteInput, GoodAuthRequest, Returned(FullDiscovery), TRUE)
    \/ \E state \in States : CallbackReceive(1, <<"c1">>, state, undefined, undefined)
    \/ CallbackGet(1)
    \/ CallbackDelete(1)
    \/ \E response \in {GoodTokenResponse, RejectedTokenResponse} :
           CallbackExchange(1, response)
    \/ \E response \in {GoodConfigResponse} : CallbackConfig(1, response)
    \/ CallbackComplete(1, TRUE)
    \/ CallbackForget(1)
    \/ Tick

SpecTtl == Init /\ [][NextTtl]_vars

\* SpecRequest: one request at a time, with every input drawn from the full
\* sets: what a single request's handling does with each kind of input.
CallbackParams ==
    [code : {undefined, <<>>} \cup Codes,
     state : {undefined, <<>>} \cup States,
     error : {undefined, <<>>, <<"access_denied">>},
     errorDescription : {undefined, <<>>, <<"User said ", "<", "no", ">">>}]

NextRequest ==
    \/ /\ cb[1].pc = "idle"
       /\ login = NoLogin
       /\ \E me \in {undefined, <<>>, SiteInput}, oauthReq \in AuthRequests,
             discovery \in DiscoveryOutcomes, putOk \in BOOLEAN :
               LoginSubmit(me, oauthReq, discovery, putOk)
    \/ /\ cb[1].pc = "idle"
       /\ login = NoLogin
       /\ \E oauthReq \in AuthRequests : LoginPage(oauthReq)
    \/ LoginForget
    \/ /\ login = NoLogin
       /\ \E p \in CallbackParams :
               CallbackReceive(1, p.code, p.state, p.error, p.errorDescription)
    \/ CallbackGet(1)
    \/ CallbackDelete(1)
    \/ \E response \in TokenResponses : CallbackExchange(1, response)
    \/ \E response \in ConfigResponses : CallbackConfig(1, response)
    \/ \E ok \in BOOLEAN : CallbackComplete(1, ok)
    \/ CallbackForget(1)

SpecRequest == Init /\ [][NextRequest]_vars

\* SpecRender: the page renderers on every string over the alphabet.
NextRender ==
    \/ \E message \in Messages : RenderError(message)
    \/ \E code \in LegacyValues, state \in LegacyValues,
          error \in LegacyValues, errorDescription \in LegacyValues :
            LegacyCallback(code, state, error, errorDescription)
    \/ PageForget

SpecRender == Init /\ [][NextRender]_vars


-----------------------------------------------------------------------------
(* Vocabulary of the properties                                             *)

Range(f) == {f[i] : i \in DOMAIN f}

RecordVisible(state) == KVGet(kv, PendingKey(state), now) # <<>>

IsErrorPage(response) ==
    /\ response.type = "html"
    /\ response.status = 400
    /\ \E i \in DOMAIN response.body : response.body[i] = RetryLink

\* the string shown in the error box of an error page
ShownMessage(response) == response.body[2].text

SessionExpiredPage(response) ==
    IsErrorPage(response) /\ ShownMessage(response) = escapeHtml(SessionExpiredMessage)

WellFormed(slot) == Falsy(slot.error) /\ Truthy(slot.code) /\ Truthy(slot.state)

PastGet == {"delete", "exchange", "config", "complete", "done"}

PastDelete == {"exchange", "config", "complete", "done"}

-----------------------------------------------------------------------------
(* C1 *)

\* C1: bridge single-use.  A callback that arrives after a callback which
\* found the pending record of the same state has been answered never sees
\* that record again: the record is absent, the callback performs no token
\* exchange and no completeAuthorization, and when it carries a code and the
\* state it is answered with the 'session expired' error page.
C1_BridgeSingleUse ==
    \A r \in Callbacks :
        cb[r].late =>
            /\ ~RecordVisible(cb[r].state)
            /\ cb[r].pendingJson = <<>>
            /\ cb[r].exchanges = <<>>
            /\ cb[r].completions = <<>>
            /\ cb[r].pc \in {"get", "done"}
            /\ (cb[r].pc = "done" /\ WellFormed(cb[r])) => SessionExpiredPage(cb[r].response)

\* a replayed callback has been answered 'session expired' while the first
\* one, which completed the grant, is still on record
C1_Witness ==
    \E r, q \in Callbacks :
        /\ r # q
        /\ cb[q].pc = "done" /\ cb[q].response.type = "redirect"
        /\ cb[r].state = cb[q].state
        /\ cb[r].late /\ cb[r].pc = "done"
        /\ SessionExpiredPage(cb[r].response)

-----------------------------------------------------------------------------
(* C2 *)

\* C2: of the callbacks that carry the same state, at most one proceeds to
\* the token exchange (and so to completeAuthorization); every other one
\* finds the record absent.
C2_AtMostOneExchange ==
    \A r, q \in Callbacks :
        (r # q /\ cb[r].state = cb[q].state /\ cb[r].exchanges # <<>>)
            => cb[q].exchanges = <<>>

-----------------------------------------------------------------------------
(* C3 *)

Secrets == Range(AccessToken) \cup Range(RefreshToken)

UrlSymbols(url) ==
    Range(url.endpoint) \cup UNION {Range(url.query[i].value) : i \in DOMAIN url.query}

ResponseSymbols(response) ==
    UNION {Range(response.body[i].text) : i \in DOMAIN response.body}
        \cup UrlSymbols(response.url)

\* C3: the downstream access and refresh tokens appear in no response of the
\* delegation handler (login page, error page, redirect) and in no URL it
\* builds; the access token goes into the bearer header of the config query
\* and both go into the props handed to completeAuthorization.
C3_TokensStayInside ==
    /\ Secrets \cap ResponseSymbols(login.response) = {}
    /\ \A r \in Callbacks :
        /\ Secrets \cap ResponseSymbols(cb[r].response) = {}
        /\ \A i \in DOMAIN cb[r].configRequests :
            /\ Secrets \cap UrlSymbols(cb[r].configRequests[i].url) = {}
            /\ cb[r].configRequests[i].authorization
                   = <<"Bearer ">> \o cb[r].token.access_token
        /\ \A i \in DOMAIN cb[r].completions :
            /\ cb[r].completions[i].props.indieAuthToken = cb[r].token.access_token
            /\ cb[r].completions[i].props.refreshToken = cb[r].token.refresh_token
            /\ Secrets \cap UrlSymbols(RedirectTo(cb[r].completions[i].request)) = {}

\* a callback that obtained both tokens, queried the config and was
\* redirected
C3_Witness ==
    \E r \in Callbacks :
        /\ cb[r].pc = "done" /\ cb[r].response.type = "redirect"
        /\ cb[r].token.access_token = AccessToken
        /\ cb[r].token.refresh_token = RefreshToken
        /\ cb[r].configRequests # <<>>
        /\ cb[r].completions # <<>>

-----------------------------------------------------------------------------
(* C4 *)

\* seconds since the state was issued, at tick t
Age(state, t) == NowSeconds(t) - NowSeconds(issued[state].at)

\* C4: pending-record lifecycle.  A record is there only for a state that a
\* login submission stored, less than 600 seconds ago, and that no callback
\* has consumed; a callback that arrives 600 seconds or more after the
\* submission, or for a state never stored, gets the 'session expired' page
\* and performs no token exchange.
C4_PendingLifecycle ==
    /\ \A s \in States :
        RecordVisible(s) =>
            /\ s \in DOMAIN issued
            /\ Age(s, now) < 600
            /\ s \notin processed
            /\ \A r \in Callbacks :
                   (cb[r].state = s /\ cb[r].pendingJson # <<>>) => cb[r].pc \notin PastDelete
    /\ \A r \in Callbacks :
        (/\ cb[r].pc \in PastGet
         /\ WellFormed(cb[r])
         /\ \/ cb[r].state \notin DOMAIN issued
            \/ Age(cb[r].state, cb[r].arrivedAt) >= 600)
        => /\ cb[r].pc = "done"
           /\ SessionExpiredPage(cb[r].response)
           /\ cb[r].exchanges = <<>>

\* a callback arrived after the TTL of a record nobody had consumed, and got
\* 'session expired'
C4_Witness ==
    \E r \in Callbacks :
        /\ cb[r].pc = "done"
        /\ cb[r].state \in DOMAIN issued
        /\ cb[r].state \notin processed
        /\ Age(cb[r].state, cb[r].arrivedAt) >= 600
        /\ SessionExpiredPage(cb[r].response)

-----------------------------------------------------------------------------
(* C5 *)

ExchangeFailed(slot) ==
    slot.pc = "done" /\ slot.exchanges # <<>> /\ Falsy(slot.token.access_token)

\* C5: when the token exchange fails the callback is answered with an error
\* page, completeAuthorization is not called and the pending record of the
\* state is gone; a callback that retries the state afterwards gets 'session
\* expired' and makes no exchange.
C5_FailedExchangeConsumes ==
    \A r \in Callbacks :
        /\ ExchangeFailed(cb[r]) =>
            /\ IsErrorPage(cb[r].response)
            /\ cb[r].completions = <<>>
            /\ PendingKey(cb[r].state) \notin DOMAIN kv
            /\ cb[r].state \in processed
        /\ (cb[r].late /\ WellFormed(cb[r]) /\ cb[r].pc \in PastGet) =>
            /\ cb[r].pc = "done"
            /\ SessionExpiredPage(cb[r].response)
            /\ cb[r].exchanges = <<>>

\* the token endpoint rejected the code and the callback was answered with
\* the error page
C5_Witness ==
    \E r \in Callbacks :
        /\ ExchangeFailed(cb[r])
        /\ IsErrorPage(cb[r].response)
        /\ PendingKey(cb[r].state) \notin DOMAIN kv


-----------------------------------------------------------------------------
(* C6 *)

DiscoveryReturned(l) == Truthy(l.me) /\ ~l.discovery.threw

\* C6: on POST /authorize, a discovery result without a Micropub endpoint is
\* answered with the 'does not support Micropub' error page, and one with a
\* Micropub endpoint but without the authorization or the token endpoint
\* with the 'could not find IndieAuth endpoints' error page; in both cases
\* nothing is written to the store and no redirect is issued.
C6_MissingEndpoints ==
    DiscoveryReturned(login) =>
        LET endpoints == login.discovery.result
        IN  /\ Falsy(endpoints.micropubEndpoint) =>
                /\ IsErrorPage(login.response)
                /\ ShownMessage(login.response) = escapeHtml(NoMicropubMessage)
                /\ login.stored = {}
            /\ (/\ Truthy(endpoints.micropubEndpoint)
                /\ Falsy(endpoints.authorizationEndpoint) \/ Falsy(endpoints.tokenEndpoint)) =>
                /\ IsErrorPage(login.response)
                /\ ShownMessage(login.response) = escapeHtml(NoIndieAuthMessage)
                /\ login.stored = {}

\* discovery found the Micropub and the authorization endpoint but no token
\* endpoint, and the error page was rendered
C6_Witness ==
    /\ DiscoveryReturned(login)
    /\ login.discovery.result.micropubEndpoint = MicropubUrl
    /\ login.discovery.result.authorizationEndpoint = AuthorizationUrl
    /\ login.discovery.result.tokenEndpoint = undefined
    /\ IsErrorPage(login.response)
    /\ kv = EmptyStore

-----------------------------------------------------------------------------
(* C7 *)

Terminal(slot) ==
    /\ slot.pc = "done"
    /\ slot.pendingJson = <<>>
    /\ slot.exchanges = <<>>
    /\ slot.completions = <<>>

MissingCodeOrState(slot) ==
    /\ slot.pc # "idle"
    /\ Falsy(slot.code) \/ Falsy(slot.state)

\* C7 as stated: every callback that has an error parameter, an empty one
\* included, is answered with the error page showing the description (the
\* error code when there is none), and every callback without error that
\* lacks code or state with the 'missing parameters' page; both terminal.
C7_AsStated ==
    \A r \in Callbacks :
        /\ (cb[r].pc # "idle" /\ cb[r].error # undefined) =>
            /\ Terminal(cb[r])
            /\ IsErrorPage(cb[r].response)
            /\ ShownMessage(cb[r].response)
                   = escapeHtml(OrElse(cb[r].errorDescription, cb[r].error))
        /\ (MissingCodeOrState(cb[r]) /\ cb[r].error = undefined) =>
            /\ Terminal(cb[r])
            /\ IsErrorPage(cb[r].response)
            /\ ShownMessage(cb[r].response) = escapeHtml(MissingParametersMessage)

\* C7, amended: a callback whose error parameter is not empty is answered
\* with the error page showing the description (the error code when the
\* description is absent or empty); a callback whose error parameter is
\* absent or empty and that lacks code or state (absent or empty) is
\* answered with the 'missing parameters' page; both are terminal: the store
\* is not read, no token exchange and no grant completion happen.
C7_CallbackParameterErrors ==
    \A r \in Callbacks :
        /\ (cb[r].pc # "idle" /\ Truthy(cb[r].error)) =>
            /\ Terminal(cb[r])
            /\ IsErrorPage(cb[r].response)
            /\ ShownMessage(cb[r].response)
                   = escapeHtml(IF Falsy(cb[r].errorDescription)
                                THEN cb[r].error ELSE cb[r].errorDescription)
        /\ (MissingCodeOrState(cb[r]) /\ Falsy(cb[r].error)) =>
            /\ Terminal(cb[r])
            /\ IsErrorPage(cb[r].response)
            /\ ShownMessage(cb[r].response) = escapeHtml(MissingParametersMessage)

\* a callback with an error, no description, and the code and state of a
\* stored record was answered with the error code, the record untouched
C7_Witness ==
    \E r \in Callbacks :
        /\ cb[r].pc = "done"
        /\ cb[r].error = <<"access_denied">>
        /\ cb[r].errorDescription = undefined
        /\ Truthy(cb[r].code)
        /\ cb[r].state \in States /\ RecordVisible(cb[r].state)
        /\ ShownMessage(cb[r].response) = <<"access_denied">>


-----------------------------------------------------------------------------
(* C8 *)

NonEmpty(str) == str # <<>>

\* the entries of a scope string: what lies between its spaces, no entry
\* empty
ScopeEntries(scope) == SelectSeq(Split(scope, " "), NonEmpty)

CompletedSuccessfully(slot) == slot.pc = "done" /\ slot.response.type = "redirect"

\* C8: a callback that completes successfully has called
\* completeAuthorization exactly once, with userId the downstream me, props
\* the assembled AuthProps and scope the entries of the granted scope string
\* (none of them empty), and is answered with a 302 to the redirectTo it got
\* back.
C8_CompleteAuthorizationArguments ==
    \A r \in Callbacks :
        CompletedSuccessfully(cb[r]) =>
            LET pending == JSONParse(cb[r].pendingJson)
                args == cb[r].completions[1]
            IN  /\ Len(cb[r].completions) = 1
                /\ args.userId = cb[r].token.me
                /\ args.props = AuthProps(cb[r].token, pending, cb[r].mediaEndpoint, now)
                /\ args.request = pending.storedOAuthReq
                /\ args.scope = ScopeEntries(cb[r].token.scope)
                /\ cb[r].response.status = 302
                /\ cb[r].response.url = RedirectTo(pending.storedOAuthReq)

-----------------------------------------------------------------------------
(* C9 *)

DiscoveryFailed(l) == Truthy(l.me) /\ l.discovery.threw

\* C9: every failure of discovery during POST /authorize and every failure of
\* the token exchange during the callback ends in an HTML error page with
\* the retry link, showing the failure; the handler lets no such exception
\* escape.
C9_FailuresRendered ==
    /\ DiscoveryFailed(login) =>
        /\ IsErrorPage(login.response)
        /\ ShownMessage(login.response)
               = escapeHtml(<<"Failed to connect to your website: ">>
                                \o ErrorToString(login.discovery.error))
    /\ \A r \in Callbacks :
        ExchangeFailed(cb[r]) =>
            /\ IsErrorPage(cb[r].response)
            /\ \E response \in TokenFailures :
                   ShownMessage(cb[r].response)
                       = escapeHtml(<<"Failed to complete authentication: ">>
                             \o ErrorToString(exchangeCodeForToken(response).error))

\* the site could not be fetched and the login submission was answered with
\* the error page
C9_Witness ==
    /\ DiscoveryFailed(login)
    /\ login.discovery.error.name = "Error"
    /\ IsErrorPage(login.response)

-----------------------------------------------------------------------------
(* C10 *)

unescapeEntity(symbol) ==
    CASE symbol = "&amp;" -> "&"
      [] symbol = "&lt;" -> "<"
      [] symbol = "&gt;" -> ">"
      [] symbol = "&quot;" -> "\""
      [] symbol = "&#39;" -> "'"
      [] OTHER -> symbol

Unescape(text) == [i \in 1..Len(text) |-> unescapeEntity(text[i])]

NoRawSpecial(text) == \A i \in 1..Len(text) : text[i] \notin HtmlSpecial

IsDyn(segment) == segment.kind = "dyn"

\* the interpolated strings of a page, in order
Interpolated(response) ==
    LET dyn == SelectSeq(response.body, IsDyn)
    IN  [i \in 1..Len(dyn) |-> dyn[i].text]

\* the inputs the legacy /callback page shows
LegacyShown(code, state, error, errorDescription) ==
    IF Truthy(error)
    THEN <<error>> \o (IF Truthy(errorDescription) THEN <<errorDescription>> ELSE <<>>)
    ELSE IF Falsy(code) \/ Falsy(state) THEN <<>>
    ELSE <<code, state>>

\* C10: the error page contains its message, and the legacy /callback page
\* its code, state, error and error description, only in escaped form: no
\* raw & < > " ' is left in what is interpolated, and putting the characters
\* back for their entities gives the input.
C10_PagesEscape ==
    LET shown == Interpolated(page.response)
    IN  /\ \A i \in 1..Len(shown) : NoRawSpecial(shown[i])
        /\ page.route = "error" =>
               /\ Len(shown) = 1
               /\ Unescape(shown[1]) = page.inputs[1]
        /\ page.route = "/callback" =>
               LET inputs == LegacyShown(page.inputs[1], page.inputs[2],
                                         page.inputs[3], page.inputs[4])
               IN  /\ Len(shown) = Len(inputs)
                   /\ \A i \in 1..Len(shown) : Unescape(shown[i]) = inputs[i]

\* an error page was rendered for a message with <, & and '
C10_Witness ==
    /\ page.route = "error"
    /\ page.inputs[1] = <<"<", "&", "'">>
    /\ Interpolated(page.response) = <<<<"&lt;", "&amp;", "&#39;">>>>

-----------------------------------------------------------------------------
(* Endpoint discovery (lib/discovery.ts)                                    *)
(*                                                                         *)
(* In this part the characters / . ? and the space are symbols of their    *)
(* own, and a scheme is the chunk `https:' or `http:' followed by two      *)
(* slashes, because the normalisation looks at exactly these.              *)

StartsWith(str, prefix) ==
    /\ Len(str) >= Len(prefix)
    /\ SubSeq(str, 1, Len(prefix)) = prefix

EndsWith(str, suffix) ==
    /\ Len(str) >= Len(suffix)
    /\ SubSeq(str, Len(str) - Len(suffix) + 1, Len(str)) = suffix

Includes(str, sym) == \E i \in 1..Len(str) : str[i] = sym

\* str.trim()
RECURSIVE Trim(_)
Trim(str) ==
    IF str # <<>> /\ str[1] = " " THEN Trim(Tail(str))
    ELSE IF str # <<>> /\ str[Len(str)] = " " THEN Trim(SubSeq(str, 1, Len(str) - 1))
    ELSE str

HttpsScheme == <<"https:", "/", "/">>

HttpScheme == <<"http:", "/", "/">>

\* array.pop() on the result of a split: its last piece
Pop(arr) == arr[Len(arr)]

\* lines 21-28 of discoverEndpoints: the URL that is handed to fetch
NormalizeUrl(websiteUrl) ==
    LET trimmed == Trim(websiteUrl)
        url     == IF ~StartsWith(trimmed, HttpScheme) /\ ~StartsWith(trimmed, HttpsScheme)
                   THEN HttpsScheme \o trimmed
                   ELSE trimmed
    IN  IF /\ ~EndsWith(url, <<"/">>)
           /\ ~Includes(url, "?")
           /\ ~Includes(Pop(Split(url, "/")), ".")
        THEN url \o <<"/">>
        ELSE url

\* toLowerCase, symbol by symbol
LowerCase(sym) == IF sym = "MICROPUB" THEN "micropub" ELSE sym

toLowerCase(str) == [i \in 1..Len(str) |-> LowerCase(str[i])]

\* str.split(/\s+/), as far as membership of a non-empty word is concerned
SplitWhitespace(str) == SelectSeq(Split(str, " "), LAMBDA piece : piece # <<>>)

\* One value of a Link header: <url>; rel="...".  rel is undefined when the
\* value has no rel parameter.
LinkValue(url, rel) == [url |-> url, rel |-> rel]

LinkMatches(link, rel) ==
    /\ link.rel # undefined
    /\ \E i \in 1..Len(SplitWhitespace(toLowerCase(link.rel))) :
          SplitWhitespace(toLowerCase(link.rel))[i] = toLowerCase(rel)

\* extractLinkRel: the URL of the first value of the header that carries rel
extractLinkRel(header, rel) ==
    IF \E i \in 1..Len(header) : LinkMatches(header[i], rel)
    THEN header[CHOOSE i \in 1..Len(header) :
                    /\ LinkMatches(header[i], rel)
                    /\ \A j \in 1..(i - 1) : ~LinkMatches(header[j], rel)].url
    ELSE undefined

\* One <link> element of a page: its rel attribute as written, its href,
\* which of the two comes first and the quote character around both.
LinkElement(rel, href, relFirst, quote) ==
    [rel |-> rel, href |-> href, relFirst |-> relFirst, quote |-> quote]

\* The regular expression of extractHtmlLinkRel on one element: either
\* alternative wants rel=<quote><rel><quote>, the whole attribute value, with
\* letter case ignored (flag i); the order of the two attributes selects the
\* alternative and either quote character is accepted.
ElementMatches(element, rel) == toLowerCase(element.rel) = toLowerCase(rel)

\* extractHtmlLinkRel: html.match returns the leftmost match
extractHtmlLinkRel(html, rel) ==
    IF \E i \in 1..Len(html) : ElementMatches(html[i], rel)
    THEN html[CHOOSE i \in 1..Len(html) :
                  /\ ElementMatches(html[i], rel)
                  /\ \A j \in 1..(i - 1) : ~ElementMatches(html[j], rel)].href
    ELSE undefined

\* the scheme and host of an absolute URL: everything before the third slash
RECURSIVE Origin(_, _)
Origin(url, slashes) ==
    IF url = <<>> THEN <<>>
    ELSE IF url[1] = "/" /\ slashes = 2 THEN <<>>
    ELSE <<url[1]>> \o Origin(Tail(url), IF url[1] = "/" THEN slashes + 1 ELSE slashes)

\* resolveUrl: new URL(url, base).href for an absolute URL or a path
resolveUrl(url, base) ==
    IF Falsy(url) THEN undefined
    ELSE IF StartsWith(url, HttpsScheme) \/ StartsWith(url, HttpScheme) THEN url
    ELSE IF StartsWith(url, <<"/">>) THEN Origin(base, 0) \o url
    ELSE url

\* the response of the site to the first fetch of discoverEndpoints; kind
\* "network" is a fetch that rejects
SiteResponse(kind, status, url, link, html) ==
    [kind |-> kind, status |-> status, url |-> url, link |-> link, html |-> html]

\* response.ok
Ok(status) == status >= 200 /\ status <= 299

StatusText(status) ==
    CASE status = 200 -> "200 OK"
      [] status = 204 -> "204 No Content"
      [] status = 404 -> "404 Not Found"
      [] OTHER        -> "500 Internal Server Error"

\* the outcome of fetchIndieAuthMetadata: the parsed document, or a rejection
\* (the fetch rejects, the status is not 2xx, the body is not JSON)
MetadataDocument(authorization_endpoint, token_endpoint) ==
    [failed |-> "", authorization_endpoint |-> authorization_endpoint,
     token_endpoint |-> token_endpoint]

MetadataFailure(why) ==
    [failed |-> why, authorization_endpoint |-> undefined, token_endpoint |-> undefined]

\* a plausible slip: only a rejected fetch counts as failure
SiteFetchFailedNetworkOnly(site) == site.kind = "network"

\* lines 30-37: the site cannot be fetched
SiteFetchFailed(site) == site.kind = "network" \/ ~Ok(site.status)

\* a plausible slip: the document only fills in what the page did not give
ApplyMetadataIfMissing(result, metadataUrl, metadata) ==
    IF Falsy(metadataUrl) \/ metadata.failed # "" THEN result
    ELSE [result EXCEPT
            !.authorizationEndpoint =
                IF Falsy(@) THEN metadata.authorization_endpoint ELSE @,
            !.tokenEndpoint =
                IF Falsy(@) THEN metadata.token_endpoint ELSE @]

\* lines 77-89: the metadata document overrides, a failed fetch is swallowed
ApplyMetadata(result, metadataUrl, metadata) ==
    IF Falsy(metadataUrl) \/ metadata.failed # "" THEN result
    ELSE [result EXCEPT
            !.authorizationEndpoint =
                IF Truthy(metadata.authorization_endpoint)
                THEN metadata.authorization_endpoint ELSE @,
            !.tokenEndpoint =
                IF Truthy(metadata.token_endpoint)
                THEN metadata.token_endpoint ELSE @]

\* lines 44-62: the metadata URL, from the Link header first, then the page
MetadataUrl(site) ==
    LET fromHeader == IF site.link # <<>>
                      THEN extractLinkRel(site.link, <<"indieauth-metadata">>)
                      ELSE undefined
    IN  IF Falsy(fromHeader)
        THEN extractHtmlLinkRel(site.html, <<"indieauth-metadata">>)
        ELSE fromHeader

\* a plausible slip: the page is searched first and the header only fills in
LegacyEndpointPageFirst(site, rel) ==
    LET fromPage == extractHtmlLinkRel(site.html, rel)
    IN  IF Falsy(fromPage) /\ site.link # <<>> THEN extractLinkRel(site.link, rel)
        ELSE fromPage

\* lines 47-73: an endpoint from the Link header first, then from the page
LegacyEndpoint(site, rel) ==
    LET fromHeader == IF site.link # <<>> THEN extractLinkRel(site.link, rel)
                      ELSE undefined
    IN  IF Falsy(fromHeader) THEN extractHtmlLinkRel(site.html, rel) ELSE fromHeader

\* discoverEndpoints: what was fetched, and what it returned or threw
discoverEndpoints(websiteUrl, site, metadata) ==
    LET url == NormalizeUrl(websiteUrl)
    IN  IF SiteFetchFailed(site)
        THEN [fetched |-> url, metadataFetched |-> undefined,
              outcome |->
                IF site.kind = "network" THEN Threw(TypeError(<<"fetch failed">>))
                ELSE Threw(Error(<<"Failed to fetch ">> \o url
                                 \o <<": ", StatusText(site.status)>>))]
        ELSE
        LET canonicalUrl == site.url
            metadataUrl  == MetadataUrl(site)
            found  == [NoEndpoints EXCEPT
                         !.me = canonicalUrl,
                         !.micropubEndpoint = LegacyEndpoint(site, <<"micropub">>),
                         !.authorizationEndpoint =
                             LegacyEndpoint(site, <<"authorization_endpoint">>),
                         !.tokenEndpoint = LegacyEndpoint(site, <<"token_endpoint">>)]
            merged == ApplyMetadata(found, metadataUrl, metadata)
        IN  [fetched |-> url,
             metadataFetched |-> resolveUrl(metadataUrl, canonicalUrl),
             outcome |-> Returned(
                [merged EXCEPT
                   !.micropubEndpoint = resolveUrl(@, canonicalUrl),
                   !.authorizationEndpoint = resolveUrl(@, canonicalUrl),
                   !.tokenEndpoint = resolveUrl(@, canonicalUrl)])]

-----------------------------------------------------------------------------
(* Inputs of discovery *)

\* what a user types as their site: an optional scheme, a host, a path, a
\* query, possibly with blanks around it
WebsiteParts ==
    [scheme : {<<>>, HttpScheme, HttpsScheme},
     host   : {<<"localhost">>, <<"example", ".", "com">>},
     path   : {<<>>, <<"/">>, <<"/", "blog">>, <<"/", "blog", "/">>,
               <<"/", "page", ".", "html">>, <<"/", "v1", ".", "2", "/", "blog">>},
     query  : {<<>>, <<"?", "q">>},
     padded : BOOLEAN]

WebsiteUrl(parts) ==
    LET text == parts.scheme \o parts.host \o parts.path \o parts.query
    IN  IF parts.padded THEN <<" ">> \o text \o <<" ">> ELSE text

PlainSite ==
    [scheme |-> <<>>, host |-> <<"example", ".", "com">>, path |-> <<"/">>,
     query |-> <<>>, padded |-> FALSE]

DiscoveredMe == HttpsScheme \o <<"example", ".", "com", "/">>

RedirectedMe == HttpsScheme \o <<"www", ".", "example", ".", "com", "/">>

AuthOrigin == HttpsScheme \o <<"auth", ".", "example">>

MetadataOrigin == HttpsScheme \o <<"meta", ".", "example">>

LinkHeaders ==
    {<<>>,
     <<LinkValue(<<"/", "micropub">>, <<"micropub">>)>>,
     <<LinkValue(AuthOrigin \o <<"/", "header-auth">>, <<"authorization_endpoint">>),
       LinkValue(AuthOrigin \o <<"/", "header-token">>, <<"token_endpoint">>)>>,
     <<LinkValue(<<"/", "header-metadata">>, <<"indieauth-metadata">>)>>,
     <<LinkValue(<<"/", "hub">>, <<"hub", " ", "MICROPUB">>),
       LinkValue(<<"/", "no-rel">>, undefined)>>}

HtmlPages ==
    {<<>>,
     <<LinkElement(<<"micropub">>, <<"/", "page-micropub">>, TRUE, "\"")>>,
     <<LinkElement(<<"authorization_endpoint">>, AuthOrigin \o <<"/", "page-auth">>, TRUE, "\""),
       LinkElement(<<"token_endpoint">>, AuthOrigin \o <<"/", "page-token">>, FALSE, "'")>>,
     <<LinkElement(<<"indieauth-metadata">>, <<"/", "page-metadata">>, TRUE, "\""),
       LinkElement(<<"micropub">>, <<"/", "page-micropub">>, FALSE, "\""),
       LinkElement(<<"authorization_endpoint">>, <<"/", "page-auth">>, TRUE, "'"),
       LinkElement(<<"token_endpoint">>, <<"/", "page-token">>, TRUE, "\"")>>}

SiteResponses ==
    {SiteResponse("network", 0, <<>>, <<>>, <<>>)}
    \cup {SiteResponse("response", status, url, link, html) :
            status \in {200, 404, 500}, url \in {DiscoveredMe, RedirectedMe},
            link \in LinkHeaders, html \in HtmlPages}

MetadataOutcomes ==
    {MetadataFailure(why) : why \in {"network", "status", "json"}}
    \cup {MetadataDocument(az, tk) :
            az \in {undefined, <<>>, MetadataOrigin \o <<"/", "auth">>},
            tk \in {undefined, <<>>, <<"/", "metadata-token">>}}

NoMetadata == MetadataFailure("network")

RelNames == {<<"micropub">>, <<"webmention">>, <<"token_endpoint">>}

RelValues ==
    {<<"micropub">>, <<"MICROPUB">>, <<"webmention">>,
     <<"micropub", " ", "webmention">>}

LinkElements ==
    {LinkElement(rel, href, relFirst, quote) :
        rel \in RelValues, href \in {<<"/", "one">>, <<"/", "two">>},
        relFirst \in BOOLEAN, quote \in {"\"", "'"}}

SamplePages ==
    {<<>>} \cup {<<e>> : e \in LinkElements}
    \cup {<<e1, e2>> : e1 \in LinkElements,
                       e2 \in {e \in LinkElements : e.relFirst /\ e.quote = "\""}}

-----------------------------------------------------------------------------
(* Discovery calls *)

Discover(parts, site, metadata) ==
    /\ call = NoCall
    /\ call' = [fn |-> "discoverEndpoints",
                inputs |-> [parts |-> parts, websiteUrl |-> WebsiteUrl(parts),
                            site |-> site, metadata |-> metadata],
                output |-> discoverEndpoints(WebsiteUrl(parts), site, metadata)]
    /\ UNCHANGED <<now, kv, issued, processed, login, cb, page, session, flows>>

ExtractHtml(html, rel) ==
    /\ call = NoCall
    /\ call' = [fn |-> "extractHtmlLinkRel",
                inputs |-> [html |-> html, rel |-> rel],
                output |-> extractHtmlLinkRel(html, rel)]
    /\ UNCHANGED <<now, kv, issued, processed, login, cb, page, session, flows>>

\* the caller has its answer
CallForget ==
    /\ call # NoCall
    /\ call' = NoCall
    /\ UNCHANGED <<now, kv, issued, processed, login, cb, page, session, flows>>

\* a site that advertises nothing
BareSites == {SiteResponse("response", 200, DiscoveredMe, <<>>, <<>>)}

NextDiscovery ==
    \/ \E parts \in WebsiteParts, site \in BareSites :
            Discover(parts, site, NoMetadata)
    \/ \E site \in SiteResponses, metadata \in MetadataOutcomes :
          Discover(PlainSite, site, metadata)
    \/ \E html \in SamplePages, rel \in RelNames : ExtractHtml(html, rel)
    \/ CallForget

SpecDiscovery == Init /\ [][NextDiscovery]_vars

-----------------------------------------------------------------------------
(* Properties of discovery *)

Discovering == call.fn = "discoverEndpoints"

SiteFetched ==
    /\ Discovering
    /\ call.inputs.site.kind = "response"
    /\ call.inputs.site.status \in 200..299

\* C11: when the site advertises a metadata document and its fetch succeeds,
\* the authorization and token endpoints the document gives are the ones
\* returned, whatever the Link header or the page said; when that fetch
\* fails, discovery still returns, with exactly the endpoints the Link header
\* and the page gave.
C11_MetadataOverrides ==
    (SiteFetched /\ Truthy(MetadataUrl(call.inputs.site))) =>
        LET site     == call.inputs.site
            metadata == call.inputs.metadata
            outcome  == call.output.outcome
        IN  /\ ~outcome.threw
            /\ call.output.metadataFetched # undefined
            /\ outcome.result.micropubEndpoint =
                   resolveUrl(LegacyEndpoint(site, <<"micropub">>), site.url)
            /\ (metadata.failed = "" /\ Truthy(metadata.authorization_endpoint)) =>
                   outcome.result.authorizationEndpoint =
                       resolveUrl(metadata.authorization_endpoint, site.url)
            /\ (metadata.failed = "" /\ Truthy(metadata.token_endpoint)) =>
                   outcome.result.tokenEndpoint =
                       resolveUrl(metadata.token_endpoint, site.url)
            /\ metadata.failed # "" =>
                   /\ outcome.result.authorizationEndpoint =
                          resolveUrl(LegacyEndpoint(site, <<"authorization_endpoint">>),
                                     site.url)
                   /\ outcome.result.tokenEndpoint =
                          resolveUrl(LegacyEndpoint(site, <<"token_endpoint">>), site.url)

\* the page gave both endpoints, the document gave other ones, and the
\* document's were returned
C11_Witness ==
    /\ SiteFetched
    /\ Truthy(LegacyEndpoint(call.inputs.site, <<"authorization_endpoint">>))
    /\ Truthy(LegacyEndpoint(call.inputs.site, <<"token_endpoint">>))
    /\ call.inputs.metadata.failed = ""
    /\ call.output.outcome.result.authorizationEndpoint = MetadataOrigin \o <<"/", "auth">>
    /\ call.output.outcome.result.authorizationEndpoint #
           resolveUrl(LegacyEndpoint(call.inputs.site, <<"authorization_endpoint">>),
                      call.inputs.site.url)
    /\ call.output.outcome.result.tokenEndpoint = DiscoveredMe \o <<"metadata-token">>

\* C12: discoverEndpoints throws, and returns no result, whenever the fetch
\* of the site rejects or answers with a status outside 200..299; otherwise
\* the me it returns is the URL of the final response.
C12_FetchFailureThrows ==
    Discovering =>
        LET site    == call.inputs.site
            outcome == call.output.outcome
        IN  IF site.kind = "network" \/ site.status \notin 200..299
            THEN outcome.threw /\ outcome.result = NoEndpoints
            ELSE ~outcome.threw /\ outcome.result.me = site.url

\* the site redirected: me is the final URL, not the one that was fetched
C12_Witness ==
    /\ SiteFetched
    /\ call.inputs.site.url = RedirectedMe
    /\ call.output.fetched = DiscoveredMe
    /\ call.output.outcome.result.me = RedirectedMe

\* the last segment of a path has no dot
NoFileExtension(path) == ~Includes(Pop(Split(path, "/")), ".")

\* the URL the normalisation is described to produce
DescribedFetch(parts) ==
    LET scheme == IF parts.scheme = <<>> THEN HttpsScheme ELSE parts.scheme
        slash  == IF /\ NoFileExtension(parts.path)
                     /\ parts.query = <<>>
                     /\ ~EndsWith(parts.path, <<"/">>)
                  THEN <<"/">> ELSE <<>>
    IN  scheme \o parts.host \o parts.path \o slash \o parts.query

\* C13: the URL that is fetched is the input with https:// put in front when
\* it has no http(s) scheme and with a slash put at the end when its path has
\* no file extension and it has no query, a bare host included.
C13_InputNormalization ==
    Discovering => call.output.fetched = DescribedFetch(call.inputs.parts)

\* the words of a rel attribute, in lower case
RelWords(element) == SplitWhitespace(toLowerCase(element.rel))

Carries(element, rel) ==
    \E i \in 1..Len(RelWords(element)) : RelWords(element)[i] = toLowerCase(rel)

\* C14: extractHtmlLinkRel returns the href of the first <link> whose rel
\* carries the name looked up, whatever the order of rel and href, the quote
\* character and the letter case of the rel value, and also when the rel is
\* a list of several names.
C14_HtmlLinkLookup ==
    call.fn = "extractHtmlLinkRel" =>
        LET html == call.inputs.html
            rel  == call.inputs.rel
        IN  (\E i \in 1..Len(html) : Carries(html[i], rel)) =>
                call.output =
                    html[CHOOSE i \in 1..Len(html) :
                            /\ Carries(html[i], rel)
                            /\ \A j \in 1..(i - 1) : ~Carries(html[j], rel)].href

-----------------------------------------------------------------------------
(* Calls of the IndieAuth flow client (lib/indieauth.ts)                    *)

\* the query parameters an authorization endpoint may already carry
ExistingQueries ==
    {<<>>,
     <<Param("existing", <<"param">>)>>,
     <<Param("existing", <<"param">>), Param("other", <<"x">>)>>,
     <<Param("state", <<"old">>)>>,
     <<Param("me", <<"https://", "other.example/">>), Param("existing", <<"param">>)>>,
     <<Param("scope", <<"a">>), Param("keep", <<"k">>), Param("scope", <<"b">>)>>}

AuthorizationEndpoints == {AuthorizationUrl, <<"https://", "user.example/auth">>}

\* a query as it is written in a URL
RECURSIVE QueryText(_)
QueryText(params) ==
    IF params = <<>> THEN <<>>
    ELSE <<params[1].name, "=">> \o params[1].value
         \o (IF Len(params) = 1 THEN <<>> ELSE <<"&">> \o QueryText(Tail(params)))

EndpointText(base, params) ==
    IF params = <<>> THEN base ELSE base \o <<"?">> \o QueryText(params)

AuthorizationOptions ==
    {[clientId |-> BaseUrl \o <<"/">>,
      redirectUri |-> BaseUrl \o <<"/indieauth-callback">>,
      me |-> SiteMe, scope |-> scope, state |-> state,
      codeChallenge |-> generateCodeChallenge(verifier)] :
        scope \in {<<"create">>, DefaultScope}, state \in States,
        verifier \in Verifiers}

\* what a token endpoint may answer to the exchange
ExchangeResponses ==
    {NetworkFailure, HttpResponse("200", FALSE, NoToken, undefined)}
    \cup {HttpResponse(status, TRUE, ErrorBody(error, description), undefined) :
            status \in {"400", "401", "500"},
            error \in {undefined, <<>>, <<"invalid_grant">>},
            description \in {undefined, <<>>, <<"The code has expired">>}}
    \cup {HttpResponse(status, FALSE, NoToken, text) :
            status \in {"400", "401", "500"},
            text \in {undefined, <<>>, <<"Bad Gateway">>}}
    \cup {HttpResponse(status, TRUE, TokenBody(at, me, <<"create">>, 0, undefined),
                       undefined) :
            status \in {"200", "201"},
            at \in {undefined, <<>>, AccessToken},
            me \in {undefined, <<>>, SiteMe}}

BuildUrl(base, params, options) ==
    /\ call = NoCall
    /\ call' = [fn |-> "buildAuthorizationUrl",
                inputs |-> [base |-> base, params |-> params, options |-> options,
                            authorizationEndpoint |-> EndpointText(base, params)],
                output |-> buildAuthorizationUrl(EndpointText(base, params), options)]
    /\ UNCHANGED <<now, kv, issued, processed, login, cb, page, session, flows>>

ExchangeCode(response) ==
    /\ call = NoCall
    /\ call' = [fn |-> "exchangeCodeForToken",
                inputs |-> [response |-> response],
                output |-> exchangeCodeForToken(response)]
    /\ UNCHANGED <<now, kv, issued, processed, login, cb, page, session, flows>>

NextIndieAuth ==
    \/ \E base \in AuthorizationEndpoints, params \in ExistingQueries,
          options \in AuthorizationOptions :
            BuildUrl(base, params, options)
    \/ \E response \in ExchangeResponses : ExchangeCode(response)
    \/ CallForget

SpecIndieAuth == Init /\ [][NextIndieAuth]_vars

-----------------------------------------------------------------------------
(* Properties of the IndieAuth flow client *)

\* url.searchParams.get(name)
SearchParamsGet(query, name) ==
    IF \E i \in 1..Len(query) : query[i].name = name
    THEN query[CHOOSE i \in 1..Len(query) :
                   /\ query[i].name = name
                   /\ \A j \in 1..(i - 1) : query[j].name # name].value
    ELSE undefined

\* the eight parameters of an authorization request
RequestParams(options) ==
    {Param("response_type", <<"code">>), Param("client_id", options.clientId),
     Param("redirect_uri", options.redirectUri), Param("me", options.me),
     Param("scope", options.scope), Param("state", options.state),
     Param("code_challenge", options.codeChallenge),
     Param("code_challenge_method", <<"S256">>)}

RequestParamNames == {"response_type", "client_id", "redirect_uri", "me", "scope",
                      "state", "code_challenge", "code_challenge_method"}

BuiltUrl == call.fn = "buildAuthorizationUrl"

RequestParamsSet ==
    /\ call.output.endpoint = call.inputs.base
    /\ \A p \in RequestParams(call.inputs.options) :
          SearchParamsGet(call.output.query, p.name) = p.value

\* C15 as stated: the eight parameters have the given values and every
\* parameter the endpoint URL already had is still there with its value.
C15_AsStated ==
    BuiltUrl =>
        /\ RequestParamsSet
        /\ \A i \in 1..Len(call.inputs.params) :
              \E j \in 1..Len(call.output.query) :
                  call.output.query[j] = call.inputs.params[i]

\* C15: the eight parameters have the given values, each exactly once, and
\* every parameter the endpoint URL already had under another name is still
\* there with its value.
C15_AuthorizationUrl ==
    BuiltUrl =>
        /\ RequestParamsSet
        /\ \A name \in RequestParamNames :
              Cardinality({j \in 1..Len(call.output.query) :
                              call.output.query[j].name = name}) = 1
        /\ \A i \in 1..Len(call.inputs.params) :
              call.inputs.params[i].name \notin RequestParamNames =>
                  \E j \in 1..Len(call.output.query) :
                      call.output.query[j] = call.inputs.params[i]

\* an endpoint with ?me=...&existing=param: existing survives, me is the given one
C15_Witness ==
    /\ BuiltUrl
    /\ Len(call.inputs.params) = 2
    /\ call.inputs.params[1].name = "me"
    /\ SearchParamsGet(call.output.query, "existing") = <<"param">>
    /\ SearchParamsGet(call.output.query, "me") = SiteMe
    /\ Len(call.output.query) = 9

Exchanged == call.fn = "exchangeCodeForToken"

ExchangeRejected ==
    /\ Exchanged
    /\ call.inputs.response.network
    /\ ~call.inputs.response.ok

GenericMessage(response) == <<"Token exchange failed: HTTP ", response.status>>

\* C16 as stated: three levels, and a field counts as present when the body
\* has it.
C16_AsStated ==
    ExchangeRejected =>
        LET response == call.inputs.response
            given(field) == response.json /\ field # undefined
        IN  /\ call.output.threw
            /\ call.output.error.message =
                 IF given(response.body.error_description)
                 THEN <<"Token exchange failed: ">> \o response.body.error_description
                 ELSE IF given(response.body.error)
                 THEN <<"Token exchange failed: ">> \o response.body.error
                 ELSE GenericMessage(response)

\* C16: on a non-2xx answer the exchange rejects with the provider's
\* error_description when it is a non-empty string, else with its error when
\* that is one, else, for a body that is not JSON, with the body text when it
\* can be read and is not empty, else with the generic HTTP-status message;
\* a description is carried verbatim.
C16_ErrorPrecedence ==
    ExchangeRejected =>
        LET response == call.inputs.response
            given(field) == response.json /\ field # undefined /\ field # <<>>
        IN  /\ call.output.threw
            /\ call.output.error.message =
                 IF given(response.body.error_description)
                 THEN <<"Token exchange failed: ">> \o response.body.error_description
                 ELSE IF given(response.body.error)
                 THEN <<"Token exchange failed: ">> \o response.body.error
                 ELSE IF ~response.json /\ response.text # undefined
                         /\ response.text # <<>>
                 THEN <<"Token exchange failed: ">> \o response.text
                 ELSE GenericMessage(response)

\* both fields were sent and the description won
C16_Witness ==
    /\ ExchangeRejected
    /\ call.inputs.response.body.error = <<"invalid_grant">>
    /\ call.inputs.response.body.error_description = <<"The code has expired">>
    /\ call.output.error.message = <<"Token exchange failed: ", "The code has expired">>

\* C17: on a 2xx JSON answer the exchange returns the token exactly when
\* access_token and me are both there, and otherwise rejects naming the
\* field that is missing; whatever the answer, a returned token has both.
C17_TokenValidated ==
    Exchanged =>
        LET response == call.inputs.response
            present(field) == field # undefined /\ field # <<>>
        IN  /\ ~call.output.threw =>
                  /\ present(call.output.token.access_token)
                  /\ present(call.output.token.me)
            /\ (response.network /\ response.ok /\ response.json) =>
                  IF ~present(response.body.access_token)
                  THEN /\ call.output.threw
                       /\ call.output.error.message =
                              <<"Token response missing access_token">>
                  ELSE IF ~present(response.body.me)
                  THEN /\ call.output.threw
                       /\ call.output.error.message = <<"Token response missing me URL">>
                  ELSE /\ ~call.output.threw
                       /\ call.output.token = response.body

\* a 2xx answer with an access token and no me was rejected
C17_Witness ==
    /\ Exchanged
    /\ call.inputs.response.ok
    /\ call.inputs.response.body.access_token = AccessToken
    /\ call.inputs.response.body.me = undefined
    /\ call.output.threw
    /\ call.output.error.message = <<"Token response missing me URL">>

-----------------------------------------------------------------------------
(* Micropub client (lib/micropub-client.ts)                                 *)
(*                                                                         *)
(* A property value is a scalar or an array of scalars; an option of        *)
(* updateEntry is absent, an object of property values or an array of      *)
(* property names.                                                         *)

Scalar(value) == [kind |-> "scalar", value |-> value, items |-> <<>>]

Array(items) == [kind |-> "array", value |-> <<>>, items |-> items]

\* a plausible slip: every value is wrapped, an array too
NormalizeValueAlwaysWrap(value) == Array(<<value.value>>)

\* Array.isArray(value) ? value : [value]
NormalizeValue(value) ==
    IF value.kind = "array" THEN value ELSE Array(<<value.value>>)

\* the loop over Object.entries
NormalizeProperties(properties) ==
    [key \in DOMAIN properties |-> NormalizeValue(properties[key])]

NoProperties == [key \in {} |-> Scalar(<<>>)]

Absent == [kind |-> "absent", props |-> NoProperties, items |-> <<>>]

ObjectOf(props) == [kind |-> "object", props |-> props, items |-> <<>>]

NameList(items) == [kind |-> "array", props |-> NoProperties, items |-> items]

\* the JSON body of a Micropub request
MicropubBody(action, type, url, properties, replace, add, delete) ==
    [action |-> action, type |-> type, url |-> url, properties |-> properties,
     replace |-> replace, add |-> add, delete |-> delete]

\* createEntry: the body it hands to request
CreateBody(properties) ==
    MicropubBody(undefined, <<"h-entry">>, undefined,
                 ObjectOf(NormalizeProperties(properties)), Absent, Absent, Absent)

\* updateEntry: the body it hands to request
UpdateBody(url, options) ==
    MicropubBody(<<"update">>, undefined, url, Absent,
        IF options.replace.kind = "absent" THEN Absent
        ELSE ObjectOf(NormalizeProperties(options.replace.props)),
        IF options.add.kind = "absent" THEN Absent
        ELSE ObjectOf(NormalizeProperties(options.add.props)),
        IF options.delete.kind = "absent" THEN Absent
        ELSE IF options.delete.kind = "array" THEN options.delete
        ELSE ObjectOf(NormalizeProperties(options.delete.props)))

\* deleteEntry and undeleteEntry
ActionBody(action, url) ==
    MicropubBody(action, undefined, url, Absent, Absent, Absent, Absent)

\* what the Micropub endpoint answers: kind "network" is a fetch that rejects;
\* location is the Location header (undefined: none); text is what
\* response.text() gives after response.json() failed (undefined: it throws)
MicropubResponse(kind, status, location, isJson, errorBody, text) ==
    [kind |-> kind, status |-> status, location |-> location, json |-> isJson,
     body |-> errorBody, text |-> text]

MicropubResult(success, location, error) ==
    [success |-> success, location |-> location, error |-> error]

\* a plausible slip: only 201 reads the Location header
RequestResultCreatedOnly(response) ==
    IF response.status = 201
    THEN MicropubResult(TRUE, OrElse(response.location, undefined), undefined)
    ELSE IF response.status \in {200, 202, 204}
    THEN MicropubResult(TRUE, undefined, undefined)
    ELSE MicropubResult(FALSE, undefined, <<"HTTP ", ToString(response.status)>>)

\* lines 47-79 of request: the result for an answer
RequestResult(response) ==
    IF response.status = 201 \/ response.status = 202
    THEN MicropubResult(TRUE, OrElse(response.location, undefined), undefined)
    ELSE IF response.status = 200 \/ response.status = 204
    THEN MicropubResult(TRUE, undefined, undefined)
    ELSE LET generic == <<"HTTP ", ToString(response.status)>>
         IN  MicropubResult(FALSE, undefined,
                IF response.json
                THEN OrElse(response.body.error_description,
                            OrElse(response.body.error, generic))
                ELSE IF Truthy(response.text) THEN response.text ELSE generic)

\* MicropubClient.request: the POST it sends and what comes of it
request(endpoint, accessToken, body, response) ==
    [requests |-> <<[url |-> endpoint,
                     authorization |-> <<"Bearer ">> \o accessToken,
                     body |-> body]>>,
     threw  |-> response.kind = "network",
     result |-> IF response.kind = "network"
                THEN MicropubResult(FALSE, undefined, undefined)
                ELSE RequestResult(response)]

PostUrl == <<"https://", "user.example/posts/1">>

PropertyValues ==
    {Scalar(<<"Hello">>), Array(<<>>), Array(<<<<"Hello">>>>),
     Array(<<<<"a">>, <<"b">>>>)}

PropertySets ==
    {NoProperties}
    \cup {[key \in {"content"} |-> v] : v \in PropertyValues}
    \cup {[key \in {"content", "category"} |-> vs[key]] :
            vs \in [{"content", "category"} -> PropertyValues]}

UpdateOptions ==
    [replace : {Absent} \cup {ObjectOf([key \in {"content"} |-> v]) :
                                 v \in PropertyValues},
     add     : {Absent, ObjectOf(NoProperties),
                ObjectOf([key \in {"category"} |-> Scalar(<<"indieweb">>)])},
     delete  : {Absent, NameList(<<>>), NameList(<<"category", "photo">>),
                ObjectOf([key \in {"category"} |-> Scalar(<<"indieweb">>)]),
                ObjectOf([key \in {"category"} |-> Array(<<<<"indieweb">>>>)])}]

MicropubStatuses == {200, 201, 202, 203, 204, 400, 403, 500}

MicropubResponses ==
    {MicropubResponse("network", 0, undefined, FALSE, NoToken, undefined)}
    \cup {MicropubResponse("response", status, location, FALSE, NoToken, text) :
            status \in MicropubStatuses, location \in {undefined, <<>>, PostUrl},
            text \in {undefined, <<"Forbidden">>}}
    \cup {MicropubResponse("response", status, undefined, TRUE,
                           ErrorBody(error, description), undefined) :
            status \in {400, 403},
            error \in {undefined, <<"insufficient_scope">>},
            description \in {undefined, <<"The token lacks the create scope">>}}

Created == MicropubResponse("response", 201, PostUrl, FALSE, NoToken, undefined)

\* bodies that request is called with directly
ClientBodies ==
    {CreateBody([key \in {"content"} |-> Scalar(<<"Hello">>)]),
     UpdateBody(PostUrl, [replace |-> Absent, add |-> Absent, delete |-> Absent]),
     ActionBody(<<"delete">>, PostUrl), ActionBody(<<"undelete">>, PostUrl)}

\* the body a method of the client hands to request
ClientBody(fn, args) ==
    IF fn = "createEntry" THEN CreateBody(args)
    ELSE IF fn = "updateEntry" THEN UpdateBody(PostUrl, args)
    ELSE args

\* one call of a method of the client
ClientCall(fn, args, response) ==
    /\ call = NoCall
    /\ call' = [fn |-> fn,
                inputs |-> [args |-> args, response |-> response],
                output |-> request(MicropubUrl, AccessToken, ClientBody(fn, args),
                                   response)]
    /\ UNCHANGED <<now, kv, issued, processed, login, cb, page, session, flows>>

ClientRequest(body, response) ==
    ClientCall("request", body, response)

CreateEntry(properties) ==
    ClientCall("createEntry", properties, Created)

UpdateEntry(options) ==
    ClientCall("updateEntry", options, Created)

-----------------------------------------------------------------------------
(* The micropub_post tool (tools/micropub-post.ts)                          *)

\* getAuthProps() of a request without a grant
NoAuth ==
    AuthProps(NoToken, [micropubEndpoint |-> undefined, tokenEndpoint |-> undefined],
              undefined, 0)

\* the props of grants made at time 0: the token may expire after
\* ShortLife seconds, and may come with a refresh token and a token endpoint
ShortLife == 300

SessionProps ==
    {AuthProps(TokenBody(AccessToken, SiteMe, <<"create">>, life, refresh),
               [micropubEndpoint |-> MicropubUrl, tokenEndpoint |-> tokenEndpoint],
               undefined, 0) :
        life \in {0, ShortLife}, refresh \in {undefined, RefreshToken},
        tokenEndpoint \in {undefined, TokenUrl}}

\* what a tool call comes to: the value the handler returns, or (threw) the
\* exception that leaves the handler, with the requests it made on the way
ToolResult(requests, isError, text) ==
    [requests |-> requests, isError |-> isError, text |-> text, threw |-> FALSE]

ToolThrown(requests, error) ==
    [requests |-> requests, isError |-> FALSE, text |-> error, threw |-> TRUE]

\* a plausible slip: the handler has no catch, or its catch rethrows
ToolCatchRethrow(requests, prefix, error) == ToolThrown(requests, error)

\* the catch of a tool handler: `${prefix}${error}` with isError
ToolCatch(requests, prefix, error) == ToolResult(requests, TRUE, prefix \o error)

\* the handler of micropub_post for a note: authentication, validation, then
\* createEntry with the token of the grant
micropub_post(auth, content, response) ==
    IF auth = NoAuth
    THEN ToolResult(<<>>, TRUE,
                    <<"Not authenticated. Please complete the OAuth flow first.">>)
    ELSE IF Falsy(content)
    THEN ToolResult(<<>>, TRUE, <<"Note requires content">>)
    ELSE LET sent == request(auth.micropubEndpoint, auth.indieAuthToken,
                             CreateBody([key \in {"content"} |-> Scalar(content)]),
                             response)
         IN  IF sent.threw
             THEN ToolCatch(sent.requests, <<"Error creating post: ">>,
                            <<"TypeError: fetch failed">>)
             ELSE IF sent.result.success
             THEN ToolResult(sent.requests, FALSE,
                             <<"Note created">>
                             \o (IF Truthy(sent.result.location)
                                 THEN <<": ">> \o sent.result.location ELSE <<>>))
             ELSE ToolResult(sent.requests, TRUE,
                             <<"Failed to create post: ">> \o sent.result.error)

ToolPost(auth, content, response) ==
    /\ call = NoCall
    /\ call' = [fn |-> "micropub_post",
                inputs |-> [auth |-> auth, content |-> content, at |-> now,
                            response |-> response],
                output |-> micropub_post(auth, content, response)]
    /\ UNCHANGED <<now, kv, issued, processed, login, cb, page, session, flows>>

NextMicropub ==
    \/ Tick
    \/ \E auth \in SessionProps \cup {NoAuth}, content \in {<<>>, <<"Hello">>},
          response \in {Created,
                        MicropubResponse("response", 403, undefined, FALSE, NoToken,
                                         undefined)} :
            ToolPost(auth, content, response)
    \/ \E body \in ClientBodies, response \in MicropubResponses :
          ClientRequest(body, response)
    \/ \E properties \in PropertySets : CreateEntry(properties)
    \/ \E options \in UpdateOptions : UpdateEntry(options)
    \/ CallForget

SpecMicropub == Init /\ [][NextMicropub]_vars

-----------------------------------------------------------------------------
(* Properties of the Micropub client and tool *)

\* the stored token has passed its expiry timestamp
TokenExpired(auth, t) ==
    /\ auth.tokenExpiresAt # <<>>
    /\ NowSeconds(t) * 1000 > auth.tokenExpiresAt[1]

\* C18: a tool operation whose grant holds an expired token together with a
\* refresh token and a token endpoint asks the token endpoint for a fresh
\* token first and never sends the expired token to the Micropub endpoint.
C18_AutomaticRefresh ==
    (/\ call.fn = "micropub_post"
     /\ call.inputs.auth # NoAuth
     /\ TokenExpired(call.inputs.auth, call.inputs.at)
     /\ Truthy(call.inputs.auth.refreshToken)
     /\ Truthy(call.inputs.auth.tokenEndpoint)
     /\ call.output.requests # <<>>) =>
        /\ call.output.requests[1].url = call.inputs.auth.tokenEndpoint
        /\ \A i \in 1..Len(call.output.requests) :
              call.output.requests[i].url = call.inputs.auth.micropubEndpoint =>
                  call.output.requests[i].authorization #
                      <<"Bearer ">> \o call.inputs.auth.indieAuthToken

ClientAnswered ==
    /\ call.fn \in {"request", "createEntry", "updateEntry"}
    /\ call.inputs.response.kind = "response"

\* C19 as stated: with 201 or 202 the location is the Location header
\* whenever there is one.
C19_AsStated ==
    ClientAnswered =>
        LET response == call.inputs.response
            result   == call.output.result
        IN  IF response.status \in {201, 202}
            THEN result.success /\ result.location = response.location
            ELSE IF response.status \in {200, 204}
            THEN result.success /\ result.location = undefined
            ELSE ~result.success /\ result.error # undefined /\ result.error # <<>>

\* C19: 201 and 202 give success with the Location header as location when
\* that header is not empty and no location otherwise, 200 and 204 give
\* success with no location, every other status gives a failure with an
\* error message.
C19_StatusMapping ==
    ClientAnswered =>
        LET response == call.inputs.response
            result   == call.output.result
        IN  /\ ~call.output.threw
            /\ IF response.status \in {201, 202}
               THEN /\ result.success
                    /\ result.location =
                         IF response.location = <<>> THEN undefined
                         ELSE response.location
               ELSE IF response.status \in {200, 204}
               THEN result.success /\ result.location = undefined
               ELSE /\ ~result.success
                    /\ result.location = undefined
                    /\ result.error # undefined /\ result.error # <<>>

\* a delete answered 202 with a Location header
C19_Witness ==
    /\ call.fn = "request"
    /\ call.inputs.args.action = <<"delete">>
    /\ call.inputs.response.status = 202
    /\ call.output.result = MicropubResult(TRUE, PostUrl, undefined)

\* what a caller's value is sent as
AsList(value) == IF value.kind = "array" THEN value ELSE Array(<<value.value>>)

ListsOf(sent, given) ==
    /\ sent.kind = "object"
    /\ DOMAIN sent.props = DOMAIN given
    /\ \A key \in DOMAIN given :
          /\ sent.props[key].kind = "array"
          /\ sent.props[key] = AsList(given[key])
          /\ AsList(sent.props[key]) = sent.props[key]

Sent == call.output.requests[1].body

\* C20: every property value createEntry sends, and every replace, add and
\* per-value delete entry updateEntry sends, is a list: [v] for a scalar v,
\* the list itself for a list; a delete given as a list of names is sent as
\* it is.
C20_ValuesAreLists ==
    /\ call.fn = "createEntry" => ListsOf(Sent.properties, call.inputs.args)
    /\ call.fn = "updateEntry" =>
          LET options == call.inputs.args
              sentOrAbsent(sent, given) ==
                  IF given.kind = "absent" THEN sent = Absent
                  ELSE ListsOf(sent, given.props)
          IN  /\ sentOrAbsent(Sent.replace, options.replace)
              /\ sentOrAbsent(Sent.add, options.add)
              /\ IF options.delete.kind = "array"
                 THEN Sent.delete = options.delete
                 ELSE sentOrAbsent(Sent.delete, options.delete)

\* createEntry({content: "Hello", category: [a, b]})
C20_Witness ==
    /\ call.fn = "createEntry"
    /\ DOMAIN call.inputs.args = {"content", "category"}
    /\ call.inputs.args["content"] = Scalar(<<"Hello">>)
    /\ Sent.properties.props["content"] = Array(<<<<"Hello">>>>)
    /\ Sent.properties.props["category"] = Array(<<<<"a">>, <<"b">>>>)

-----------------------------------------------------------------------------
(* Micropub queries (MicropubClient.query) and the micropub_query tool      *)

\* the parsed body of a successful query: null, or an object with the
\* members the formatters read
QueryData(isNull, mediaEndpoint, categories, name) ==
    [null |-> isNull, media_endpoint |-> mediaEndpoint, categories |-> categories,
     name |-> name]

RECURSIVE SetAll(_, _)
\* the loop of url.searchParams.set over Object.entries(params)
SetAll(query, params) ==
    IF params = <<>> THEN query
    ELSE SetAll(SearchParamsSet(query, params[1].name, params[1].value), Tail(params))

\* a plausible slip: a non-2xx answer is parsed like a successful one
QueryFailedNetworkOnly(response) == response.kind = "network"

\* the answers on which query throws before it reads the data
QueryFailed(response) == response.kind = "network" \/ ~Ok(response.status)

\* MicropubClient.query: the GET it sends, and the data it returns or the
\* error it throws
query(endpoint, accessToken, queryType, params, response) ==
    LET url == ParseUrl(endpoint)
        generic == <<"Query failed: HTTP ", ToString(response.status)>>
        sent == <<[url |-> [endpoint |-> url.endpoint,
                            query |-> SetAll(SearchParamsSet(url.query, "q", queryType),
                                             params)],
                   authorization |-> <<"Bearer ">> \o accessToken]>>
        outcome(threw, error, value) ==
            [requests |-> sent, threw |-> threw, error |-> error, value |-> value]
        nothing == QueryData(TRUE, undefined, <<>>, undefined)
    IN  IF QueryFailed(response)
        THEN IF response.kind = "network"
             THEN outcome(TRUE, <<"TypeError: fetch failed">>, nothing)
             ELSE outcome(TRUE,
                      <<"Error: ">> \o
                      (IF response.json
                       THEN OrElse(response.body.error_description,
                                   OrElse(response.body.error, generic))
                       ELSE generic),
                      nothing)
        ELSE IF ~response.json
        THEN outcome(TRUE, <<"SyntaxError: Unexpected token ", "<">>, nothing)
        ELSE outcome(FALSE, <<>>, response.body)

\* formatConfigResponse, formatSourceResponse and formatCategoriesResponse
\* with response_format "concise"
FormatQuery(queryType, data) ==
    IF queryType = <<"config">>
    THEN <<"Micropub config: ">>
         \o (IF Truthy(data.media_endpoint) THEN <<"media uploads">>
             ELSE <<"basic support">>)
    ELSE IF queryType = <<"source">>
    THEN <<"Post source: ">> \o OrElse(data.name, <<"Untitled">>)
    ELSE IF data.categories = <<>> THEN <<"No categories found">>
    ELSE <<"Categories: ">> \o Join(data.categories, ", ")

\* the handler of micropub_query
micropub_query(auth, params, response) ==
    IF auth = NoAuth
    THEN ToolResult(<<>>, TRUE,
                    <<"Not authenticated. Please complete the OAuth flow first.">>)
    ELSE IF params.query_type = <<"source">> /\ Falsy(params.url)
    THEN ToolResult(<<>>, TRUE, <<"Source query requires a URL parameter">>)
    ELSE LET got == query(auth.micropubEndpoint, auth.indieAuthToken,
                          params.query_type,
                          IF params.query_type = <<"source">>
                          THEN <<Param("url", params.url)>> ELSE <<>>,
                          response)
         IN  IF got.threw
             THEN ToolCatch(got.requests, <<"Query failed: ">>, got.error)
             ELSE IF got.value.null
             THEN \* the formatter, or the handler itself, reads a member of null
                  ToolCatch(got.requests, <<"Query failed: ">>,
                            <<"TypeError: Cannot read properties of null">>)
             ELSE ToolResult(got.requests, FALSE,
                             FormatQuery(params.query_type, got.value))

-----------------------------------------------------------------------------
(* The session-token variant: the tools of MicropubMcpAgent                 *)
(* (src/src/tools/auth.ts, posts.ts, query.ts) on agent.state               *)

\* MicropubMcpAgent.isAuthenticated
isAuthenticated(state) == Truthy(state.accessToken) /\ Truthy(state.micropubEndpoint)

\* getClientId() and getRedirectUri() without a request URL and without
\* env.CLIENT_ID / env.REDIRECT_URI: the fallbacks
FallbackClientId == <<"https://", "micropub-mcp.workers.dev/">>

FallbackRedirectUri == <<"https://", "micropub-mcp.workers.dev/callback">>

\* what getClient() throws, as the catch of the handler prints it
NotAuthenticated == <<"Error: Not authenticated. Run micropub_auth_start first.">>

\* a tool of posts.ts that sends `body`: getClient, the client's method, and
\* the two answers of the handler
PostTool(state, body, response, done, failed) ==
    IF ~isAuthenticated(state)
    THEN ToolCatch(<<>>, <<"Error: ">>, NotAuthenticated)
    ELSE LET sent == request(state.micropubEndpoint, state.accessToken, body, response)
         IN  IF sent.threw
             THEN ToolCatch(sent.requests, <<"Error: ">>, <<"TypeError: fetch failed">>)
             ELSE IF sent.result.success
             THEN ToolResult(sent.requests, FALSE, done)
             ELSE ToolResult(sent.requests, TRUE, failed \o sent.result.error)

micropub_update_post(state, url, options, response) ==
    PostTool(state, UpdateBody(url, options), response,
             <<"Post updated successfully!">>, <<"Failed to update: ">>)

micropub_delete_post(state, url, response) ==
    PostTool(state, ActionBody(<<"delete">>, url), response,
             <<"Post deleted: ">> \o url, <<"Failed to delete: ">>)

\* query.ts: micropub_query_config
micropub_query_config(state, response) ==
    IF ~isAuthenticated(state)
    THEN ToolCatch(<<>>, <<"Query failed: ">>, NotAuthenticated)
    ELSE LET got == query(state.micropubEndpoint, state.accessToken, <<"config">>,
                          <<>>, response)
         IN  IF got.threw
             THEN ToolCatch(got.requests, <<"Query failed: ">>, got.error)
             ELSE IF got.value.null
             THEN ToolCatch(got.requests, <<"Query failed: ">>,
                            <<"TypeError: Cannot read properties of null">>)
             ELSE ToolResult(got.requests, FALSE,
                      <<"Micropub Configuration:", "\n", "\n", "Media Endpoint: ">>
                      \o OrElse(got.value.media_endpoint, <<"Not available">>))

\* what a tool that changes agent.state comes to
SessionOutcome(state, result) == [state |-> state, result |-> result]

\* auth.ts: micropub_discover
micropub_discover(state, discovery) ==
    IF discovery.threw
    THEN SessionOutcome(state,
             ToolCatch(<<>>, <<"Discovery failed: ">>, ErrorToString(discovery.error)))
    ELSE LET endpoints == discovery.result
         IN  SessionOutcome(
                 [state EXCEPT !.me = endpoints.me,
                               !.micropubEndpoint = endpoints.micropubEndpoint,
                               !.authorizationEndpoint = endpoints.authorizationEndpoint,
                               !.tokenEndpoint = endpoints.tokenEndpoint],
                 ToolResult(<<>>, FALSE,
                     <<"Discovered endpoints for ">> \o endpoints.me
                     \o <<"\n", "\n", "Micropub: ">>
                     \o OrElse(endpoints.micropubEndpoint, <<"Not found">>)
                     \o <<"\n", "Authorization: ">>
                     \o OrElse(endpoints.authorizationEndpoint, <<"Not found">>)
                     \o <<"\n", "Token: ">>
                     \o OrElse(endpoints.tokenEndpoint, <<"Not found">>)))

\* a plausible slip: a verifier already in the session is kept
StartedFlowKeepVerifier(agentState, state, codeVerifier) ==
    [state |-> state, codeVerifier |-> OrElse(agentState.codeVerifier, codeVerifier)]

\* lines 137-141: authState: state, codeVerifier
StartedFlow(agentState, state, codeVerifier) ==
    [state |-> state, codeVerifier |-> codeVerifier]

\* a plausible slip: a stored endpoint set is reused whatever the site
NeedsDiscoveryWhenEmpty(agentState, websiteUrl) ==
    Falsy(agentState.authorizationEndpoint)

\* line 101: !agent.state.authorizationEndpoint || websiteUrl !== agent.state.me
NeedsDiscovery(agentState, websiteUrl) ==
    Falsy(agentState.authorizationEndpoint) \/ websiteUrl # agentState.me

\* auth.ts: micropub_auth_start.  discovery is the outcome of
\* discoverEndpoints when the handler calls it; state and codeVerifier are
\* what generateState() and generateCodeVerifier() return
micropub_auth_start(agentState, me, scope, discovery, state, codeVerifier) ==
    LET websiteUrl == OrElse(me, agentState.me)
        rediscover == NeedsDiscovery(agentState, websiteUrl)
        endpoints == discovery.result
        \* { ...agent.state, ...endpoints }: a DiscoveryResult has the members
        \* me, micropubEndpoint, authorizationEndpoint and tokenEndpoint
        found == IF rediscover
                 THEN [agentState EXCEPT
                          !.me = endpoints.me,
                          !.micropubEndpoint = endpoints.micropubEndpoint,
                          !.authorizationEndpoint = endpoints.authorizationEndpoint,
                          !.tokenEndpoint = endpoints.tokenEndpoint]
                 ELSE agentState
        authUrl == buildAuthorizationUrl(found.authorizationEndpoint,
                       [clientId |-> FallbackClientId,
                        redirectUri |-> FallbackRedirectUri,
                        me |-> found.me,
                        scope |-> scope,
                        state |-> state,
                        codeChallenge |-> generateCodeChallenge(codeVerifier)])
    IN  IF Falsy(websiteUrl)
        THEN SessionOutcome(agentState, ToolResult(<<>>, TRUE,
                 <<"No website URL provided. Run micropub_discover first or provide a ",
                   "'", "me", "'", " URL.">>))
        ELSE IF rediscover /\ discovery.threw
        THEN SessionOutcome(agentState,
                 ToolCatch(<<>>, <<"Auth start failed: ">>,
                           ErrorToString(discovery.error)))
        ELSE IF Falsy(found.authorizationEndpoint)
        THEN SessionOutcome(found, ToolResult(<<>>, TRUE,
                 <<"No authorization endpoint found. ",
                   "This site may not support IndieAuth.">>))
        ELSE IF ~IsAbsoluteUrl(found.authorizationEndpoint)
        THEN SessionOutcome(found,
                 ToolCatch(<<>>, <<"Auth start failed: ">>,
                           ErrorToString(TypeError(<<"Invalid URL">>))))
        ELSE SessionOutcome(
                 [found EXCEPT
                     !.authState = StartedFlow(found, state, codeVerifier).state,
                     !.codeVerifier = StartedFlow(found, state, codeVerifier).codeVerifier],
                 ToolResult(<<>>, FALSE,
                     <<"Authorization Required", "\n", "\n",
                       "Please visit this URL to authorize:", "\n">>
                     \o EndpointText(authUrl.endpoint, authUrl.query)
                     \o <<"\n", "\n", "State for verification: ">> \o state))

StateMismatchMessage ==
    <<"State mismatch - possible CSRF attack. ",
      "Please restart authentication with micropub_auth_start.">>

MissingFlowStateMessage ==
    <<"Missing auth flow state. Please restart with micropub_auth_start.">>

\* a plausible slip: the comparison is skipped while no flow is in progress
StateMismatchWhenStarted(state, authState) ==
    authState # undefined /\ state # authState

\* state !== agent.state.authState
StateMismatch(state, authState) == state # authState

\* a plausible slip: only the verifier is cleared
ClearedFlowVerifierOnly(agentState) ==
    [authState |-> agentState.authState, codeVerifier |-> undefined]

\* lines 247-249: authState: undefined, codeVerifier: undefined
ClearedFlow(agentState) == [authState |-> undefined, codeVerifier |-> undefined]

\* auth.ts: micropub_auth_complete, at time t, with the answers of the token
\* endpoint and of the Micropub endpoint's ?q=config
micropub_auth_complete(agentState, code, state, tokenResponse, configResponse, t) ==
    LET exchange == [endpoint |-> agentState.tokenEndpoint,
                     grant_type |-> <<"authorization_code">>,
                     code |-> code,
                     client_id |-> FallbackClientId,
                     redirect_uri |-> FallbackRedirectUri,
                     code_verifier |-> agentState.codeVerifier]
        exchanged == exchangeCodeForToken(tokenResponse)
        token == exchanged.token
        asksConfig == Truthy(agentState.micropubEndpoint)
                      /\ IsAbsoluteUrl(agentState.micropubEndpoint)
        mediaEndpoint == IF asksConfig
                         THEN ConfigMediaEndpoint(undefined, configResponse)
                         ELSE undefined
        requests == <<exchange>>
                    \o (IF asksConfig THEN <<ConfigRequest(agentState, token)>>
                        ELSE <<>>)
    IN  IF StateMismatch(state, agentState.authState)
        THEN SessionOutcome(agentState, ToolResult(<<>>, TRUE, StateMismatchMessage))
        ELSE IF Falsy(agentState.tokenEndpoint) \/ Falsy(agentState.codeVerifier)
        THEN SessionOutcome(agentState, ToolResult(<<>>, TRUE, MissingFlowStateMessage))
        ELSE IF exchanged.threw
        THEN SessionOutcome(agentState,
                 ToolCatch(<<exchange>>, <<"Token exchange failed: ">>,
                           ErrorToString(exchanged.error)))
        ELSE SessionOutcome(
                 [agentState EXCEPT
                     !.accessToken = token.access_token,
                     !.tokenType = token.token_type,
                     !.scope = token.scope,
                     !.me = token.me,
                     !.refreshToken = token.refresh_token,
                     !.tokenExpiresAt =
                         IF token.expires_in # 0
                         THEN <<NowSeconds(t) * 1000 + token.expires_in * 1000>>
                         ELSE <<>>,
                     !.mediaEndpoint = mediaEndpoint,
                     !.authState = ClearedFlow(agentState).authState,
                     !.codeVerifier = ClearedFlow(agentState).codeVerifier],
                 ToolResult(requests, FALSE,
                     <<"Authentication successful!", "\n", "\n", "Connected to: ">>
                     \o token.me \o <<"\n", "Media endpoint: ">>
                     \o OrElse(mediaEndpoint, <<"Not available">>)))

\* a plausible slip: the session is cleared whether authenticated or not
micropub_logoutAlways(agentState) ==
    SessionOutcome(initialState,
        ToolResult(<<>>, FALSE,
            <<"Logged out from ">> \o agentState.me \o <<". Session cleared.">>))

\* auth.ts: micropub_logout
micropub_logout(agentState) ==
    IF ~isAuthenticated(agentState)
    THEN SessionOutcome(agentState,
                        ToolResult(<<>>, FALSE, <<"Not currently authenticated.">>))
    ELSE SessionOutcome(initialState,
             ToolResult(<<>>, FALSE,
                 <<"Logged out from ">> \o agentState.me \o <<". Session cleared.">>))

-----------------------------------------------------------------------------
(* Tool calls of both variants *)

SessionDiscoveries ==
    {Returned(FullDiscovery),
     Returned([FullDiscovery EXCEPT !.authorizationEndpoint = undefined]),
     Threw(TypeError(<<"fetch failed">>))}

SessionTokenResponses == {GoodTokenResponse, RejectedTokenResponse, NetworkFailure}

SessionConfigResponses ==
    {NetworkFailure,
     HttpResponse("200", TRUE, ConfigBody(MediaUrl), undefined),
     HttpResponse("403", TRUE, ConfigBody(undefined), undefined)}

\* answers of the Micropub endpoint to the tools' requests
ToolResponses ==
    {Created,
     MicropubResponse("network", 0, undefined, FALSE, NoToken, undefined),
     MicropubResponse("response", 403, undefined, FALSE, NoToken, <<"Forbidden">>),
     MicropubResponse("response", 400, undefined, TRUE,
                      ErrorBody(<<"invalid_request">>, undefined), undefined),
     MicropubResponse("response", 200, undefined, TRUE,
                      QueryData(FALSE, MediaUrl, <<<<"indieweb">>, <<"notes">>>>,
                                <<"A title">>), undefined),
     MicropubResponse("response", 200, undefined, TRUE,
                      QueryData(TRUE, undefined, <<>>, undefined), undefined),
     MicropubResponse("response", 200, undefined, FALSE, NoToken,
                      <<"<", "html", ">">>)}

QueryParams ==
    {[query_type |-> <<"config">>, url |-> undefined],
     [query_type |-> <<"category">>, url |-> undefined],
     [query_type |-> <<"source">>, url |-> undefined],
     [query_type |-> <<"source">>, url |-> PostUrl]}

SessionUpdates ==
    {[replace |-> ObjectOf([key \in {"content"} |-> Scalar(<<"Hello">>)]),
      add |-> Absent, delete |-> Absent],
     [replace |-> Absent, add |-> Absent, delete |-> NameList(<<"category">>)]}

\* a call of a tool that changes agent.state
SessionCall(fn, inputs, outcome) ==
    /\ call' = [fn |-> fn, inputs |-> inputs, output |-> outcome.result]
    /\ session' = outcome.state
    /\ UNCHANGED flows

\* a call of a tool that only reads agent.state, or the grant's props
ToolCall(fn, inputs, result) ==
    /\ call' = [fn |-> fn, inputs |-> inputs, output |-> result]
    /\ UNCHANGED <<session, flows>>

SessionDiscover(discovery) ==
    /\ call = NoCall
    /\ SessionCall("micropub_discover",
                   [session |-> session, discovery |-> discovery],
                   micropub_discover(session, discovery))
    /\ UNCHANGED <<now, kv, issued, processed, login, cb, page>>

\* the flow is on record once the handler has generated its PKCE values
\* and built the URL (lines 118-141)
SessionAuthStart(me, discovery, state, codeVerifier) ==
    /\ call = NoCall
    /\ LET outcome == micropub_auth_start(session, me, DefaultScope, discovery, state,
                                          codeVerifier)
       IN  /\ call' = [fn |-> "micropub_auth_start",
                       inputs |-> [session |-> session, me |-> me,
                                   discovery |-> discovery,
                                   state |-> state, codeVerifier |-> codeVerifier],
                       output |-> outcome.result]
           /\ session' = outcome.state
           /\ flows' = IF outcome.result.isError THEN flows
                       ELSE [all |-> flows.all \cup {Flow(state, codeVerifier)},
                             latest |-> Flow(state, codeVerifier)]
    /\ UNCHANGED <<now, kv, issued, processed, login, cb, page>>

SessionAuthComplete(code, state, tokenResponse, configResponse) ==
    /\ call = NoCall
    /\ SessionCall("micropub_auth_complete",
                   [session |-> session, code |-> code, state |-> state,
                    tokenResponse |-> tokenResponse,
                    configResponse |-> configResponse],
                   micropub_auth_complete(session, code, state, tokenResponse,
                                          configResponse, now))
    /\ UNCHANGED <<now, kv, issued, processed, login, cb, page>>

SessionLogout ==
    /\ call = NoCall
    /\ SessionCall("micropub_logout", [session |-> session],
                   micropub_logout(session))
    /\ UNCHANGED <<now, kv, issued, processed, login, cb, page>>

SessionUpdatePost(options, response) ==
    /\ call = NoCall
    /\ ToolCall("micropub_update_post",
                [session |-> session, options |-> options, response |-> response],
                micropub_update_post(session, PostUrl, options, response))
    /\ UNCHANGED <<now, kv, issued, processed, login, cb, page>>

SessionDeletePost(response) ==
    /\ call = NoCall
    /\ ToolCall("micropub_delete_post",
                [session |-> session, response |-> response],
                micropub_delete_post(session, PostUrl, response))
    /\ UNCHANGED <<now, kv, issued, processed, login, cb, page>>

SessionQueryConfig(response) ==
    /\ call = NoCall
    /\ ToolCall("micropub_query_config",
                [session |-> session, response |-> response],
                micropub_query_config(session, response))
    /\ UNCHANGED <<now, kv, issued, processed, login, cb, page>>

ToolQuery(auth, params, response) ==
    /\ call = NoCall
    /\ ToolCall("micropub_query",
                [auth |-> auth, params |-> params, response |-> response],
                micropub_query(auth, params, response))
    /\ UNCHANGED <<now, kv, issued, processed, login, cb, page>>

NotAuthenticatedText == <<"Not authenticated. Please complete the OAuth flow first.">>

\* one case of the switch of micropub_manage: the client call and its texts
ManageCase(auth, body, response, url, format, concise, detailed, failed) ==
    LET sent == request(auth.micropubEndpoint, auth.indieAuthToken, body, response)
    IN  IF sent.threw
        THEN ToolCatch(sent.requests, <<"Error: ">>, <<"TypeError: fetch failed">>)
        ELSE IF sent.result.success
        THEN ToolResult(sent.requests, FALSE,
                        IF format = <<"concise">> THEN concise \o url
                        ELSE detailed \o <<"\n", "\n", "URL: ">> \o url)
        ELSE ToolResult(sent.requests, TRUE, failed \o sent.result.error)

\* the handler of micropub_manage: authentication, then update, delete or
\* undelete through the client
micropub_manage(auth, params, response) ==
    IF auth = NoAuth
    THEN ToolResult(<<>>, TRUE, NotAuthenticatedText)
    ELSE IF params.action = <<"update">>
    THEN IF /\ params.options.replace.kind = "absent"
            /\ params.options.add.kind = "absent"
            /\ params.options.delete.kind = "absent"
         THEN ToolResult(<<>>, TRUE,
                 <<"Update action requires at least one of: replace, add, or remove">>)
         ELSE ManageCase(auth, UpdateBody(params.url, params.options), response,
                         params.url, params.response_format,
                         <<"Updated: ">>, <<"Post updated successfully">>,
                         <<"Update failed: ">>)
    ELSE IF params.action = <<"delete">>
    THEN LET done == ManageCase(auth, ActionBody(<<"delete">>, params.url), response,
                                params.url, params.response_format,
                                <<"Deleted: ">>, <<"Post deleted successfully">>,
                                <<"Delete failed: ">>)
         IN  IF done.isError \/ params.response_format = <<"concise">> THEN done
             ELSE [done EXCEPT !.text =
                      @ \o <<"\n", "\n", "Note: Some servers support undelete if needed.">>]
    ELSE ManageCase(auth, ActionBody(<<"undelete">>, params.url), response,
                    params.url, params.response_format,
                    <<"Restored: ">>, <<"Post restored successfully">>,
                    <<"Restore failed: ">>)

ManageParams ==
    {[action |-> action, url |-> PostUrl, options |-> options,
      response_format |-> format] :
        action \in {<<"update">>, <<"delete">>, <<"undelete">>},
        options \in SessionUpdates
                    \cup {[replace |-> Absent, add |-> Absent, delete |-> Absent]},
        format \in {<<"concise">>, <<"detailed">>}}

ToolManage(auth, params, response) ==
    /\ call = NoCall
    /\ ToolCall("micropub_manage",
                [auth |-> auth, params |-> params, response |-> response],
                micropub_manage(auth, params, response))
    /\ UNCHANGED <<now, kv, issued, processed, login, cb, page>>

NextSession ==
    \/ \E discovery \in SessionDiscoveries : SessionDiscover(discovery)
    \/ \E me \in {undefined, SiteMe}, discovery \in SessionDiscoveries,
          state \in States, codeVerifier \in {<<"v1">>} :
            SessionAuthStart(me, discovery, state, codeVerifier)
    \/ \E code \in {<<"c1">>}, state \in States \cup {<<>>},
          tokenResponse \in SessionTokenResponses,
          configResponse \in SessionConfigResponses :
            SessionAuthComplete(code, state, tokenResponse, configResponse)
    \/ SessionLogout
    \/ \E options \in SessionUpdates, response \in ToolResponses :
          SessionUpdatePost(options, response)
    \/ \E response \in ToolResponses : SessionDeletePost(response)
    \/ \E response \in ToolResponses : SessionQueryConfig(response)
    \/ \E auth \in SessionProps \cup {NoAuth}, content \in {<<>>, <<"Hello">>},
          response \in ToolResponses :
            ToolPost(auth, content, response)
    \/ \E auth \in SessionProps \cup {NoAuth}, params \in QueryParams,
          response \in ToolResponses :
            ToolQuery(auth, params, response)
    \/ \E auth \in SessionProps \cup {NoAuth}, params \in ManageParams,
          response \in ToolResponses :
            ToolManage(auth, params, response)
    \/ CallForget

SpecSession == Init /\ [][NextSession]_vars

-----------------------------------------------------------------------------
(* Properties of the tools *)

PostTools ==
    {"micropub_post", "micropub_update_post", "micropub_delete_post", "micropub_manage"}

QueryTools == {"micropub_query", "micropub_query_config"}

\* the tool sent its request and the Micropub operation failed: no answer,
\* or a status the client does not count as success
OperationFailed ==
    /\ call.output.requests # <<>>
    /\ \/ call.inputs.response.kind = "network"
       \/ call.fn \in PostTools /\ call.inputs.response.status \notin {200, 201, 202, 204}
       \/ call.fn \in QueryTools /\ ~Ok(call.inputs.response.status)

\* C21: no call of a tool that creates, updates, deletes or queries ends in
\* an exception, and whenever the Micropub operation failed (network failure
\* or non-success status) the result handed to the caller has isError set.
C21_FailuresStructured ==
    call.fn \in PostTools \cup QueryTools =>
        /\ ~call.output.threw
        /\ OperationFailed => call.output.isError

\* a delete of the session-token variant whose fetch rejected
C21_Witness ==
    /\ call.fn = "micropub_delete_post"
    /\ call.inputs.response.kind = "network"
    /\ call.output.requests # <<>>
    /\ call.output.isError

\* C22: micropub_auth_complete called with a state other than the session's
\* authState returns the state-mismatch error, sends no request (no token
\* exchange) and leaves agent.state as it was.
C22_StateValidation ==
    (/\ call.fn = "micropub_auth_complete"
     /\ call.inputs.state # call.inputs.session.authState) =>
        /\ call.output = ToolResult(<<>>, TRUE, StateMismatchMessage)
        /\ session = call.inputs.session

\* a started flow completed with the other state, where the token endpoint
\* would have accepted the code
C22_Witness ==
    /\ call.fn = "micropub_auth_complete"
    /\ call.inputs.session.authState \in States
    /\ call.inputs.state \in States \ {call.inputs.session.authState}
    /\ call.inputs.tokenResponse = GoodTokenResponse
    /\ call.output.isError
    /\ session.authState = call.inputs.session.authState
    /\ session.accessToken = undefined

-----------------------------------------------------------------------------
(* PKCE values as the code computes them (src/src/lib/pkce.ts): bytes are   *)
(* numbers 0..255 and the characters of the result are symbols              *)

\* the alphabet of btoa
Base64Alphabet ==
    <<"A", "B", "C", "D", "E", "F", "G", "H", "I", "J", "K", "L", "M", "N", "O", "P",
      "Q", "R", "S", "T", "U", "V", "W", "X", "Y", "Z", "a", "b", "c", "d", "e", "f",
      "g", "h", "i", "j", "k", "l", "m", "n", "o", "p", "q", "r", "s", "t", "u", "v",
      "w", "x", "y", "z", "0", "1", "2", "3", "4", "5", "6", "7", "8", "9", "+", "/">>

\* the number of random bytes of a code verifier and of a state
VerifierBytes == 32

StateBytes == 16

\* btoa(String.fromCharCode(...buffer)): four characters for every three
\* bytes, the last group padded with =
btoa(bytes) ==
    LET n == Len(bytes)
        byte(i) == IF i <= n THEN bytes[i] ELSE 0
        group(g) ==
            LET b1 == byte(3 * g - 2)
                b2 == byte(3 * g - 1)
                b3 == byte(3 * g)
            IN  <<Base64Alphabet[(b1 \div 4) + 1],
                  Base64Alphabet[(b1 % 4) * 16 + (b2 \div 16) + 1],
                  IF 3 * g - 1 > n THEN "="
                  ELSE Base64Alphabet[(b2 % 16) * 4 + (b3 \div 64) + 1],
                  IF 3 * g > n THEN "=" ELSE Base64Alphabet[(b3 % 64) + 1]>>
        groups == (n + 2) \div 3
    IN  [i \in 1..(4 * groups) |-> group(((i - 1) \div 4) + 1)[((i - 1) % 4) + 1]]

\* str.replace(/from/g, to) for a one-character pattern
ReplaceAll(str, from, to) ==
    [i \in 1..Len(str) |-> IF str[i] = from THEN to ELSE str[i]]

\* a plausible slip: the padding is left in
base64UrlEncodePadded(buffer) ==
    ReplaceAll(ReplaceAll(btoa(buffer), "+", "-"), "/", "_")

base64UrlEncode(buffer) ==
    SelectSeq(ReplaceAll(ReplaceAll(btoa(buffer), "+", "-"), "/", "_"),
              LAMBDA c : c # "=")

\* generateCodeVerifier and generateState on the bytes that
\* crypto.getRandomValues wrote
generateCodeVerifier(random) == base64UrlEncode(random)

generateState(random) == base64UrlEncode(random)

\* the random bytes tried: every array of one repeated byte, and the arrays
\* that repeat three bytes drawn from ByteSamples
ByteSamples == {0, 62, 63, 190, 251, 255}

BytePatterns ==
    {<<b, b, b>> : b \in 0..255} \cup [1..3 -> ByteSamples]

RandomValues(length, pattern) == [i \in 1..length |-> pattern[((i - 1) % 3) + 1]]

GenerateCodeVerifier(pattern) ==
    /\ call = NoCall
    /\ call' = [fn |-> "generateCodeVerifier",
                inputs |-> [random |-> RandomValues(VerifierBytes, pattern)],
                output |-> generateCodeVerifier(RandomValues(VerifierBytes, pattern))]
    /\ UNCHANGED <<now, kv, issued, processed, login, cb, page, session, flows>>

GenerateState(pattern) ==
    /\ call = NoCall
    /\ call' = [fn |-> "generateState",
                inputs |-> [random |-> RandomValues(StateBytes, pattern)],
                output |-> generateState(RandomValues(StateBytes, pattern))]
    /\ UNCHANGED <<now, kv, issued, processed, login, cb, page, session, flows>>

NextPkce ==
    \/ \E pattern \in BytePatterns : GenerateCodeVerifier(pattern)
    \/ \E pattern \in BytePatterns : GenerateState(pattern)
    \/ CallForget

SpecPkce == Init /\ [][NextPkce]_vars

\* the characters of [A-Za-z0-9_-]
UrlSafe ==
    ({Base64Alphabet[i] : i \in 1..64} \ {"+", "/"}) \cup {"-", "_"}

\* C23: generateCodeVerifier returns 43 characters and generateState 22,
\* all of them in [A-Za-z0-9_-], whatever the random bytes are.
C23_GeneratedValues ==
    /\ call.fn = "generateCodeVerifier" => Len(call.output) = 43
    /\ call.fn = "generateState" => Len(call.output) = 22
    /\ call.fn \in {"generateCodeVerifier", "generateState"} =>
          \A i \in 1..Len(call.output) : call.output[i] \in UrlSafe

\* random bytes whose encoding holds both replaced characters: 0xfb gives a
\* leading - and 0xff gives _
C23_Witness ==
    /\ call.fn = "generateCodeVerifier"
    /\ call.inputs.random[1] = 251
    /\ call.inputs.random[2] = 255
    /\ call.output[1] = "-"
    /\ call.output[3] = "_"
    /\ Len(call.output) = 43


-----------------------------------------------------------------------------
(* SpecFlow: whole flows through the bridge, one request at a time, on      *)
(* requests that reach the worker under either of two origins, upstream     *)
(* requests of every shape, and sites whose authorization endpoint may not  *)
(* be a URL.                                                                *)

\* the origins of request.url (lines 49-50 and 65-66 of auth-handler.ts)
FlowBaseUrls == {BaseUrl, <<"http://", "mcp.internal">>}

\* resolveUrl hands back what it cannot resolve as it is
BrokenAuthorizationUrl == <<"http://[">>

FlowDiscoveries ==
    {Returned(FullDiscovery),
     Returned([FullDiscovery EXCEPT !.authorizationEndpoint = BrokenAuthorizationUrl]),
     Returned([FullDiscovery EXCEPT !.tokenEndpoint = undefined])}

\* upstream requests: a complete one, one with a relative and one with no
\* redirect URI, one whose client id is no URL, one without PKCE
FlowRequests ==
    {GoodAuthRequest,
     AuthRequest(<<"client.example/cb">>, <<>>),
     AuthRequest(<<>>, <<<<"create">>, <<"update">>>>),
     [GoodAuthRequest EXCEPT !.clientId = <<"client.example">>],
     [GoodAuthRequest EXCEPT !.codeChallenge = undefined,
                             !.codeChallengeMethod = undefined]}

FlowTokenResponses ==
    {GoodTokenResponse, RejectedTokenResponse,
     HttpResponse("200", TRUE,
                  TokenBody(AccessToken, SiteMe, undefined, 0, undefined), undefined)}

\* the answers to ?q=config, among them a refusal whose body names a media
\* endpoint all the same
FlowConfigResponses ==
    ConfigResponses
    \cup {HttpResponse("403", TRUE, ConfigBody(MediaUrl), undefined)}

NextFlow ==
    \/ /\ cb[1].pc = "idle"
       /\ login = NoLogin
       /\ \E baseUrl \in FlowBaseUrls, oauthReq \in FlowRequests,
             discovery \in FlowDiscoveries, putOk \in BOOLEAN :
               LoginSubmitAt(baseUrl, SiteInput, oauthReq, discovery, putOk)
    \/ LoginForget
    \/ /\ login = NoLogin
       /\ \E baseUrl \in FlowBaseUrls, code \in Codes, state \in States :
               CallbackReceiveAt(baseUrl, 1, code, state, undefined, undefined)
    \/ CallbackGet(1)
    \/ CallbackDelete(1)
    \/ \E response \in FlowTokenResponses : CallbackExchange(1, response)
    \/ \E response \in FlowConfigResponses : CallbackConfig(1, response)
    \/ \E ok \in BOOLEAN : CallbackComplete(1, ok)
    \/ CallbackForget(1)

SpecFlow == Init /\ [][NextFlow]_vars


-----------------------------------------------------------------------------
(* C24 *)

\* the steps of a callback that act on the record it found
ActedOnRecord(slot) ==
    slot.exchanges # <<>> \/ slot.configRequests # <<>> \/ slot.completions # <<>>

\* C24: delete before acting.  A callback that has found a pending record
\* and has not yet deleted it has made no token exchange, no config query
\* and no completeAuthorization call; once it is past that point the delete
\* has completed and the record was gone when it did, and only then is a
\* token exchange made.
C24_DeleteBeforeActing ==
    \A r \in Callbacks :
        /\ cb[r].pc \in {"get", "delete"} => ~ActedOnRecord(cb[r])
        /\ (cb[r].pendingJson # <<>> /\ cb[r].pc \in PastDelete) => cb[r].deleted
        /\ ActedOnRecord(cb[r]) => (cb[r].pendingJson # <<>> /\ cb[r].deleted)

\* a callback found a record, deleted it, and then made its token exchange
C24_Witness ==
    \E r \in Callbacks :
        /\ cb[r].pendingJson # <<>>
        /\ cb[r].deleted
        /\ PendingKey(cb[r].state) \notin DOMAIN kv
        /\ Len(cb[r].exchanges) = 1


-----------------------------------------------------------------------------
(* C25 *)

\* the login submission in hand is one for which discovery returned a
\* Micropub, an authorization and a token endpoint
ThreeEndpointsFound(l) ==
    /\ DiscoveryReturned(l)
    /\ Truthy(l.discovery.result.micropubEndpoint)
    /\ Truthy(l.discovery.result.authorizationEndpoint)
    /\ Truthy(l.discovery.result.tokenEndpoint)

\* the one record the submission wrote: under its own state, for 600 seconds
StoredOneRecord(l) ==
    /\ l.state \in DOMAIN issued
    /\ l.stored = {PendingKey(l.state)}
    /\ PendingKey(l.state) \in DOMAIN kv
    /\ kv[PendingKey(l.state)].expiration = NowSeconds(issued[l.state].at) + 600

\* the verifier as such is part of the URL
VerifierInUrl(url, verifier) ==
    \/ \E i \in 1..Len(url.query) : url.query[i].value = verifier
    \/ \E i \in 1..Len(url.endpoint) : url.endpoint[i] = verifier[1]

\* the 302 to the discovered authorization endpoint, carrying the state of
\* the record and the S256 challenge of the verifier stored in it
RedirectsDownstream(l) ==
    LET pending == JSONParse(kv[PendingKey(l.state)].value)
        url == l.response.url
    IN  /\ l.response.type = "redirect"
        /\ l.response.status = 302
        /\ url.endpoint = ParseUrl(l.discovery.result.authorizationEndpoint).endpoint
        /\ SearchParamsGet(url.query, "state") = l.state
        /\ SearchParamsGet(url.query, "code_challenge")
               = <<"S256(">> \o pending.codeVerifier \o <<")">>
        /\ SearchParamsGet(url.query, "code_challenge_method") = <<"S256">>
        /\ ~VerifierInUrl(url, pending.codeVerifier)

\* C25 as the specification states it: whenever discovery found the three
\* endpoints, exactly one record is stored under the new state for 600
\* seconds and the answer is the 302 to the authorization endpoint.
C25_AsStated ==
    ThreeEndpointsFound(login) => (StoredOneRecord(login) /\ RedirectsDownstream(login))

\* C25: a POST /authorize whose discovery found the three endpoints.  When
\* the store accepts the write, exactly one pending record is stored, under
\* the state generated for this request, for 600 seconds; when moreover the
\* discovered authorization endpoint parses as a URL, the answer is a 302 to
\* that endpoint whose state is the record's key, whose code_challenge is the
\* S256 challenge of the stored verifier, and which does not carry the
\* verifier.  When the store refuses the write nothing is stored, and when
\* the endpoint is no URL the record is stored all the same; in both cases
\* the answer is the error page and no redirect.
C25_LoginStoresAndRedirects ==
    ThreeEndpointsFound(login) =>
        /\ login.putOk => StoredOneRecord(login)
        /\ ~login.putOk => login.stored = {}
        /\ IF login.putOk /\ IsAbsoluteUrl(login.discovery.result.authorizationEndpoint)
           THEN RedirectsDownstream(login)
           ELSE IsErrorPage(login.response)

\* a submission stored its record and was redirected to the site's
\* authorization endpoint
C25_Witness ==
    /\ ThreeEndpointsFound(login)
    /\ login.putOk
    /\ StoredOneRecord(login)
    /\ login.response.type = "redirect"
    /\ SearchParamsGet(login.response.url.query, "state") = login.state


-----------------------------------------------------------------------------
(* C26 *)

\* the downstream authorization URL the flow for `state` was started with
StartedWith(state) == issued[state].authUrl

\* C26: the token exchange names the redirect_uri and the client_id of the
\* downstream authorization URL that started the flow for its state,
\* whatever the origin under which the callback request arrives.
C26_SameRedirectUri ==
    \A r \in Callbacks :
        \A i \in 1..Len(cb[r].exchanges) :
            (cb[r].state \in DOMAIN issued /\ StartedWith(cb[r].state).endpoint # <<>>)
            => /\ cb[r].exchanges[i].redirect_uri
                      = SearchParamsGet(StartedWith(cb[r].state).query, "redirect_uri")
               /\ cb[r].exchanges[i].client_id
                      = SearchParamsGet(StartedWith(cb[r].state).query, "client_id")


-----------------------------------------------------------------------------
(* C27 *)

\* the callback got its token and is past the checks on the stored request
PastRequestChecks(slot) ==
    slot.pc \in {"complete", "done"} /\ Truthy(slot.token.access_token)

\* C27: completeAuthorization is called only with a stored upstream request
\* whose redirect URI and client id are both present and both absolute
\* URLs.  A callback that has its token but whose stored request fails one
\* of these tests ends with the error page that says so ('session is
\* invalid' for a missing value, 'invalid OAuth configuration' for one that
\* is no URL) and calls completeAuthorization not at all.
C27_GrantNeedsValidRequest ==
    \A r \in Callbacks :
        /\ \A i \in 1..Len(cb[r].completions) :
               LET stored == cb[r].completions[i].request
               IN  /\ Truthy(stored.redirectUri) /\ IsAbsoluteUrl(stored.redirectUri)
                   /\ Truthy(stored.clientId) /\ IsAbsoluteUrl(stored.clientId)
        /\ PastRequestChecks(cb[r]) =>
               LET stored == JSONParse(cb[r].pendingJson).storedOAuthReq
                   present == Truthy(stored.redirectUri) /\ Truthy(stored.clientId)
                   valid == present /\ IsAbsoluteUrl(stored.redirectUri)
                                    /\ IsAbsoluteUrl(stored.clientId)
               IN  ~valid =>
                       /\ cb[r].pc = "done"
                       /\ cb[r].completions = <<>>
                       /\ IsErrorPage(cb[r].response)
                       /\ ShownMessage(cb[r].response)
                              = IF present THEN InvalidConfigurationMessage
                                ELSE InvalidSessionMessage

\* a callback exchanged its code, found that the stored client id was no
\* URL, and ended with the configuration error page
C27_Witness ==
    \E r \in Callbacks :
        /\ PastRequestChecks(cb[r])
        /\ Truthy(JSONParse(cb[r].pendingJson).storedOAuthReq.redirectUri)
        /\ IsAbsoluteUrl(JSONParse(cb[r].pendingJson).storedOAuthReq.redirectUri)
        /\ ~IsAbsoluteUrl(JSONParse(cb[r].pendingJson).storedOAuthReq.clientId)
        /\ cb[r].completions = <<>>
        /\ ShownMessage(cb[r].response) = InvalidConfigurationMessage


-----------------------------------------------------------------------------
(* C28 *)

\* the upstream request parsed at the POST /authorize that created the
\* record for `state`
ParsedAt(state) == issued[state].oauthReq

\* C28: the request handed to completeAuthorization is, member by member,
\* the upstream request that was parsed when the record for the callback's
\* state was created: response type, client id, redirect URI, state, scopes,
\* PKCE challenge and method.
C28_SnapshotRoundTrip ==
    \A r \in Callbacks :
        \A i \in 1..Len(cb[r].completions) :
            LET snapshot == cb[r].completions[i].request
            IN  /\ cb[r].state \in DOMAIN issued
                /\ snapshot.responseType = ParsedAt(cb[r].state).responseType
                /\ snapshot.clientId = ParsedAt(cb[r].state).clientId
                /\ snapshot.redirectUri = ParsedAt(cb[r].state).redirectUri
                /\ snapshot.state = ParsedAt(cb[r].state).state
                /\ snapshot.scope = ParsedAt(cb[r].state).scope
                /\ snapshot.codeChallenge = ParsedAt(cb[r].state).codeChallenge
                /\ snapshot.codeChallengeMethod = ParsedAt(cb[r].state).codeChallengeMethod

\* completeAuthorization was called with the snapshot of a request that
\* carried scopes and a PKCE challenge
C28_Witness ==
    \E r \in Callbacks :
        /\ Len(cb[r].completions) = 1
        /\ cb[r].state \in DOMAIN issued
        /\ cb[r].completions[1].request.codeChallenge = <<"upstream-challenge">>
        /\ cb[r].completions[1].request.scope = <<<<"create">>, <<"update">>>>
        /\ ParsedAt(cb[r].state) = GoodAuthRequest


-----------------------------------------------------------------------------
(* C29 *)

\* the config query failed: no answer, a non-2xx answer, or a body that is
\* not JSON
ConfigFailed(response) == ~response.network \/ ~response.ok \/ ~response.json

\* the callback has made its config query and has its answer
ConfigAnswered(slot) ==
    slot.configRequests # <<>> /\ slot.pc \in {"complete", "done"}

\* C29: the config query is optional.  A callback makes it at most once,
\* after its token exchange, and only when the record it found has no media
\* endpoint.  When the query fails the callback goes on as if it had not
\* been made: it keeps no media endpoint, and, the stored upstream request
\* being valid and the token carrying a scope, it calls completeAuthorization
\* with props that have no media endpoint; otherwise it ends as the checks
\* and the argument building of the completion step end it.  No failed
\* query ends the callback with a page of its own.
C29_ConfigQueryOptional ==
    \A r \in Callbacks :
        /\ cb[r].configRequests # <<>> =>
               /\ Len(cb[r].configRequests) = 1
               /\ Len(cb[r].exchanges) = 1
               /\ Falsy(JSONParse(cb[r].pendingJson).mediaEndpoint)
        /\ (ConfigAnswered(cb[r]) /\ ConfigFailed(cb[r].configResponse)) =>
               LET pending == JSONParse(cb[r].pendingJson)
                   problem == StoredRequestProblem(pending.storedOAuthReq)
               IN  /\ Falsy(cb[r].mediaEndpoint)
                   /\ (problem = <<>> /\ cb[r].token.scope # undefined) =>
                          /\ Len(cb[r].completions) = 1
                          /\ Falsy(cb[r].completions[1].props.mediaEndpoint)
                          /\ cb[r].completions[1].props.micropubEndpoint
                                 = pending.micropubEndpoint
                   /\ problem # <<>> =>
                          /\ cb[r].completions = <<>>
                          /\ ShownMessage(cb[r].response) = problem
                   /\ (problem = <<>> /\ cb[r].token.scope = undefined) =>
                          \* the arguments of completeAuthorization cannot
                          \* be built: token.scope.split throws
                          /\ cb[r].completions = <<>>
                          /\ cb[r].response = CallbackCatch(TypeError(
                                 <<"Cannot read properties of undefined (reading ",
                                   "'", "split", "'", ")">>))

\* a config query was refused with a body that names a media endpoint, and
\* the callback went on to completeAuthorization without one
C29_Witness ==
    \E r \in Callbacks :
        /\ ConfigAnswered(cb[r])
        /\ cb[r].configResponse.network
        /\ ~cb[r].configResponse.ok
        /\ Truthy(cb[r].configResponse.body.media_endpoint)
        /\ Len(cb[r].completions) = 1
        /\ Falsy(cb[r].completions[1].props.mediaEndpoint)


-----------------------------------------------------------------------------
(* C30 *)

\* what the Link header of the site gives for rel
FromHeader(site, rel) == extractLinkRel(site.link, rel)

\* what the <link> elements of the page give for rel
FromPage(site, rel) == extractHtmlLinkRel(site.html, rel)

\* the header's value when it gives one, the page's otherwise
HeaderThenPage(site, rel) ==
    IF Truthy(FromHeader(site, rel)) THEN FromHeader(site, rel) ELSE FromPage(site, rel)

\* the metadata document replaces the endpoint named `member`
MetadataOverrides(site, metadata, member) ==
    /\ Truthy(HeaderThenPage(site, <<"indieauth-metadata">>))
    /\ metadata.failed = ""
    /\ Truthy(metadata[member])

\* C30: header before page.  The Micropub endpoint that discoverEndpoints
\* returns is the Link header's when the header names one and the page's
\* <link> only otherwise; so are the authorization and token endpoints
\* wherever the metadata document does not replace them; and the metadata
\* document fetched is the header's indieauth-metadata link when there is
\* one and the page's only otherwise (each resolved against the final URL).
C30_HeaderBeforePage ==
    (call.fn = "discoverEndpoints" /\ ~call.output.outcome.threw) =>
        LET site == call.inputs.site
            found == call.output.outcome.result
        IN  /\ found.micropubEndpoint
                   = resolveUrl(HeaderThenPage(site, <<"micropub">>), site.url)
            /\ ~MetadataOverrides(site, call.inputs.metadata, "authorization_endpoint")
                   => found.authorizationEndpoint
                          = resolveUrl(HeaderThenPage(site, <<"authorization_endpoint">>),
                                       site.url)
            /\ ~MetadataOverrides(site, call.inputs.metadata, "token_endpoint")
                   => found.tokenEndpoint
                          = resolveUrl(HeaderThenPage(site, <<"token_endpoint">>), site.url)
            /\ call.output.metadataFetched
                   = resolveUrl(HeaderThenPage(site, <<"indieauth-metadata">>), site.url)

\* a site named its Micropub endpoint both in the Link header and in a
\* <link> element, with different URLs, and the header's was returned
C30_Witness ==
    /\ call.fn = "discoverEndpoints"
    /\ ~call.output.outcome.threw
    /\ Truthy(FromHeader(call.inputs.site, <<"micropub">>))
    /\ Truthy(FromPage(call.inputs.site, <<"micropub">>))
    /\ FromHeader(call.inputs.site, <<"micropub">>)
           # FromPage(call.inputs.site, <<"micropub">>)
    /\ call.output.outcome.result.micropubEndpoint
           = resolveUrl(FromHeader(call.inputs.site, <<"micropub">>), call.inputs.site.url)


-----------------------------------------------------------------------------
(* SpecSites: one session of the session-token variant and two sites.  What *)
(* discovery returns and what a token endpoint answers is the site's to     *)
(* decide: the tools are called in any order, with any arguments, and each  *)
(* outbound request is answered by the site it is sent to.                  *)

OtherInput == <<"other.example">>

OtherMe == <<"https://", "other.example/">>

OtherMicropubUrl == <<"https://", "other.example/micropub">>

OtherTokenUrl == <<"https://", "other.example/token">>

OtherAccessToken == <<"AT-other">>

OtherDiscovery ==
    [me |-> OtherMe, micropubEndpoint |-> OtherMicropubUrl, mediaEndpoint |-> undefined,
     authorizationEndpoint |-> <<"https://", "other.example/authorize">>,
     tokenEndpoint |-> OtherTokenUrl]

\* the first site after it has moved its authorization endpoint
MovedDiscovery ==
    [FullDiscovery EXCEPT !.authorizationEndpoint = <<"https://", "auth2.example/authorize">>]

\* the sites a URL given to discoverEndpoints can belong to
SiteUrls == {SiteInput, SiteMe, OtherInput, OtherMe}

\* what discoverEndpoints(url) can come to
DiscoveriesOf(url) ==
    IF url \in {SiteInput, SiteMe}
    THEN {Returned(FullDiscovery), Returned(MovedDiscovery),
          Returned([FullDiscovery EXCEPT !.authorizationEndpoint = undefined]),
          Threw(TypeError(<<"fetch failed">>))}
    ELSE {Returned(OtherDiscovery),
          Returned([OtherDiscovery EXCEPT
                       !.authorizationEndpoint = BrokenAuthorizationUrl])}

SitesDiscoveries == UNION {DiscoveriesOf(url) : url \in SiteUrls}

OtherTokenResponse ==
    HttpResponse("200", TRUE,
        TokenBody(OtherAccessToken, OtherMe, <<"create">>, 0, undefined), undefined)

\* what the token endpoint at `endpoint` can answer
TokenResponsesOf(endpoint) ==
    IF endpoint = OtherTokenUrl
    THEN {OtherTokenResponse, RejectedTokenResponse}
    ELSE {GoodTokenResponse, RejectedTokenResponse, NetworkFailure}

SitesTokenResponses == UNION {TokenResponsesOf(e) : e \in {TokenUrl, OtherTokenUrl}}

\* the values generateState() and generateCodeVerifier() return on one call:
\* none of them was returned before
FreshFlows ==
    {Flow(<<"s1">>, <<"v1">>), Flow(<<"s2">>, <<"v2">>), Flow(<<"s3">>, <<"v3">>)}

\* the state strings a caller may hand to micropub_auth_complete
CallerStates == {f.state : f \in FreshFlows} \cup {<<>>}

Started == {f.state : f \in flows.all}

NextSites ==
    \/ \E url \in SiteUrls, discovery \in SitesDiscoveries :
          /\ discovery \in DiscoveriesOf(url)
          /\ SessionDiscover(discovery)
    \/ \E me \in SiteUrls \cup {undefined}, discovery \in SitesDiscoveries,
          flow \in FreshFlows :
          /\ flow.state \notin Started
          /\ Truthy(OrElse(me, session.me)) => discovery \in DiscoveriesOf(OrElse(me, session.me))
          /\ SessionAuthStart(me, discovery, flow.state, flow.codeVerifier)
    \/ \E code \in {<<"c1">>}, state \in CallerStates,
          tokenResponse \in SitesTokenResponses,
          configResponse \in SessionConfigResponses :
          /\ tokenResponse \in TokenResponsesOf(session.tokenEndpoint)
          /\ SessionAuthComplete(code, state, tokenResponse, configResponse)
    \/ SessionLogout
    \/ \E response \in {Created} : SessionDeletePost(response)
    \/ CallForget

SpecSites == Init /\ [][NextSites]_vars


-----------------------------------------------------------------------------
(* Properties of the session-token variant *)

\* piece occurs in text
HasText(text, piece) ==
    \E i \in 0..(Len(text) - Len(piece)) : SubSeq(text, i + 1, i + Len(piece)) = piece

\* the endpoint set of a session state
EndpointSet(state) ==
    <<state.me, state.micropubEndpoint, state.authorizationEndpoint, state.tokenEndpoint>>

\* the call in hand is micropub_auth_start on a site URL
AuthStartCalled ==
    call.fn = "micropub_auth_start" /\ Truthy(OrElse(call.inputs.me, call.inputs.session.me))

\* the call in hand had to discover: another site than the stored me was
\* supplied, or no authorization endpoint is stored
HadToDiscover ==
    LET before == call.inputs.session
    IN  \/ Falsy(before.authorizationEndpoint)
        \/ OrElse(call.inputs.me, before.me) # before.me

\* the result names the authorization URL of `endpoint` for the site `me`
NamesAuthorizationUrl(endpoint, me) ==
    /\ ~call.output.isError
    /\ HasText(call.output.text,
               <<"Please visit this URL to authorize:", "\n">> \o endpoint \o <<"?">>)
    /\ HasText(call.output.text, <<"&", "me", "=">> \o me \o <<"&">>)

\* (C31) micropub_auth_start discovers again exactly when the supplied site
\* differs from the stored me or no authorization endpoint is stored.  Then
\* the session holds the endpoint set discovery returned, and the URL it
\* answers with is on the newly discovered authorization endpoint, for the
\* newly discovered me; when discovery fails the call fails and the session
\* is as before.  Otherwise the stored endpoint set stays as it was,
\* whatever discovery would have returned, and the URL is on the stored
\* authorization endpoint.
C31_RediscoverOnNewSite ==
    AuthStartCalled =>
        LET before == call.inputs.session
            discovery == call.inputs.discovery
        IN  IF HadToDiscover
            THEN IF discovery.threw
                 THEN call.output.isError /\ session = before
                 ELSE /\ EndpointSet(session) = EndpointSet(discovery.result)
                      /\ ~call.output.isError =>
                             NamesAuthorizationUrl(discovery.result.authorizationEndpoint,
                                                   discovery.result.me)
            ELSE /\ EndpointSet(session) = EndpointSet(before)
                 /\ ~call.output.isError =>
                        NamesAuthorizationUrl(before.authorizationEndpoint, before.me)

\* a session that held the endpoints of one site was given the other site,
\* and answered with the authorization URL of that other site
C31_Witness ==
    /\ AuthStartCalled
    /\ call.inputs.session.me = SiteMe
    /\ Truthy(call.inputs.session.authorizationEndpoint)
    /\ call.inputs.me = OtherInput
    /\ session.me = OtherMe
    /\ NamesAuthorizationUrl(OtherDiscovery.authorizationEndpoint, OtherMe)


-----------------------------------------------------------------------------
(* SpecPair: two callback requests at a time, well-formed or not, on the    *)
(* records of two flows, while time passes.                                 *)

\* the query strings of callback requests: complete ones, ones that carry
\* an error beside a state, ones that lack the code or the state
PairParams ==
    {[code |-> <<"c1">>, state |-> s, error |-> undefined, errorDescription |-> undefined] :
        s \in States}
    \cup {[code |-> <<"c1">>, state |-> <<"s1">>, error |-> <<"access_denied">>,
           errorDescription |-> undefined],
          [code |-> undefined, state |-> <<"s1">>, error |-> undefined,
           errorDescription |-> undefined],
          [code |-> <<"c1">>, state |-> undefined, error |-> undefined,
           errorDescription |-> undefined]}

NextPair ==
    \/ LoginSubmit(SiteInput, GoodAuthRequest, Returned(FullDiscovery), TRUE)
    \/ \E r \in {1, 2}, p \in PairParams :
           CallbackReceive(r, p.code, p.state, p.error, p.errorDescription)
    \/ \E r \in {1, 2} : CallbackGet(r)
    \/ \E r \in {1, 2} : CallbackDelete(r)
    \/ \E r \in {1, 2}, response \in {GoodTokenResponse, RejectedTokenResponse} :
           CallbackExchange(r, response)
    \/ \E r \in {1, 2}, response \in {GoodConfigResponse} : CallbackConfig(r, response)
    \/ \E r \in {1, 2} : CallbackComplete(r, TRUE)
    \/ \E r \in {1, 2} : CallbackForget(r)
    \/ Tick

SpecPair == Init /\ [][NextPair]_vars


-----------------------------------------------------------------------------
(* C32 *)

\* callback r is received in this step, and its query string carries an
\* error or lacks the code or the state
MalformedArrives(r) ==
    cb[r].pc = "idle" /\ cb'[r].pc # "idle" /\ ~WellFormed(cb'[r])

-----------------------------------------------------------------------------
(* C33 *)

\* C33: a POST /authorize that is answered with an error page has written
\* no pending record.
C33_ErrorPageWritesNothing ==
    IsErrorPage(login.response) => login.stored = {}


-----------------------------------------------------------------------------
(* SpecTwoFlows: two flows for two sites at once, their callbacks handled   *)
(* two at a time in any interleaving.                                       *)

TwoSites == {Returned(FullDiscovery), Returned(OtherDiscovery)}

NextTwoFlows ==
    \/ \E discovery \in TwoSites : LoginSubmit(SiteInput, GoodAuthRequest, discovery, TRUE)
    \/ \E r \in {1, 2}, state \in States :
           CallbackReceive(r, <<"c1">>, state, undefined, undefined)
    \/ \E r \in {1, 2} : CallbackGet(r)
    \/ \E r \in {1, 2} : CallbackDelete(r)
    \/ \E r \in {1, 2}, response \in {GoodTokenResponse, RejectedTokenResponse} :
           CallbackExchange(r, response)
    \/ \E r \in {1, 2}, response \in {GoodConfigResponse} : CallbackConfig(r, response)
    \/ \E r \in {1, 2} : CallbackComplete(r, TRUE)
    \/ \E r \in {1, 2} : CallbackForget(r)

SpecTwoFlows == Init /\ [][NextTwoFlows]_vars

-----------------------------------------------------------------------------
(* C34 *)

\* what the POST /authorize that generated `state` put into its record
VerifierOf(state) == issued[state].codeVerifier

EndpointsOf(state) == issued[state].endpoints

\* callback r uses the record of its own state, and no other
UsesOwnRecord(r) ==
    /\ \A i \in 1..Len(cb[r].exchanges) :
           /\ cb[r].state \in DOMAIN issued
           /\ cb[r].exchanges[i].code_verifier = VerifierOf(cb[r].state)
           /\ cb[r].exchanges[i].endpoint = EndpointsOf(cb[r].state).tokenEndpoint
    /\ \A i \in 1..Len(cb[r].completions) :
           /\ cb[r].completions[i].props.micropubEndpoint
                  = EndpointsOf(cb[r].state).micropubEndpoint
           /\ cb[r].completions[i].props.tokenEndpoint
                  = EndpointsOf(cb[r].state).tokenEndpoint

\* the record under `state` is removed or altered in this step
RecordTouched(state) ==
    /\ PendingKey(state) \in DOMAIN kv
    /\ \/ PendingKey(state) \notin DOMAIN kv'
       \/ kv'[PendingKey(state)] # kv[PendingKey(state)]

\* C34: flows do not mix.  The token exchange of the callback for state s
\* goes to the token endpoint, and carries the verifier, that the POST
\* /authorize which generated s stored, and the props it hands to
\* completeAuthorization carry the Micropub and token endpoints of that
\* record; and a record is removed only by the delete of a callback for its
\* own state, and never altered.
C34_FlowsDoNotMix ==
    /\ [](\A r \in Callbacks : UsesOwnRecord(r))
    /\ [][\A s \in States :
             RecordTouched(s) =>
                 /\ PendingKey(s) \notin DOMAIN kv'
                 /\ \E r \in Callbacks :
                        cb[r].state = s /\ cb[r].pc = "delete" /\ cb'[r].pc # "delete"]_vars

\* the callbacks of two flows are under way at once, each with the verifier
\* and the token endpoint of its own flow, and the record of the second is
\* still there after the first was consumed
C34_Witness ==
    \E r1, r2 \in Callbacks :
        /\ cb[r1].state # cb[r2].state
        /\ Len(cb[r1].exchanges) = 1
        /\ cb[r1].exchanges[1].endpoint = TokenUrl
        /\ cb[r1].exchanges[1].code_verifier = VerifierOf(cb[r1].state)
        /\ cb[r2].pc = "delete"
        /\ EndpointsOf(cb[r2].state).tokenEndpoint = OtherTokenUrl
        /\ VerifierOf(cb[r2].state) # VerifierOf(cb[r1].state)
        /\ PendingKey(cb[r2].state) \in DOMAIN kv


-----------------------------------------------------------------------------
(* C35 *)

AuthCompleteCalled == call.fn = "micropub_auth_complete"

\* the call in hand sent a token request
SentTokenRequest == call.output.requests # <<>>

\* C35: a micropub_auth_complete that succeeds leaves the session without
\* authState and codeVerifier.  On a session without authState every
\* micropub_auth_complete, whatever its state string, fails, sends nothing
\* and changes nothing, and only micropub_auth_start gives the session an
\* authState again.  A micropub_auth_complete whose token exchange fails
\* leaves the whole session as it was.
C35_CompleteClearsFlow ==
    /\ [](AuthCompleteCalled =>
            /\ ~call.output.isError =>
                   /\ SentTokenRequest
                   /\ session.authState = undefined
                   /\ session.codeVerifier = undefined
            /\ call.inputs.session.authState = undefined =>
                   /\ call.output.isError
                   /\ ~SentTokenRequest
                   /\ session = call.inputs.session
            /\ (SentTokenRequest /\ call.output.isError) => session = call.inputs.session)
    /\ [][(session.authState = undefined /\ session'.authState # undefined)
              => call'.fn = "micropub_auth_start"]_vars

\* after a successful micropub_auth_complete, a second one with the state
\* that had just been accepted is refused
C35_Witness ==
    /\ AuthCompleteCalled
    /\ isAuthenticated(call.inputs.session)
    /\ call.inputs.session.authState = undefined
    /\ call.inputs.state = flows.latest.state
    /\ call.output.isError
    /\ ~SentTokenRequest


-----------------------------------------------------------------------------
(* C36 *)

\* the site whose token endpoint issues `accessToken`
IssuerOf(accessToken) == IF accessToken = OtherAccessToken THEN OtherMe ELSE SiteMe

\* the site that advertises the Micropub endpoint `endpoint`
AdvertiserOf(endpoint) == IF endpoint = OtherMicropubUrl THEN OtherMe ELSE SiteMe

\* C36: token and Micropub endpoint belong together.  An authenticated
\* session holds the Micropub endpoint of the site whose token endpoint
\* issued its access token, and a tool that sends the token sends it to that
\* site's Micropub endpoint.
C36_TokenStaysWithItsSite ==
    /\ isAuthenticated(session) =>
           AdvertiserOf(session.micropubEndpoint) = IssuerOf(session.accessToken)
    /\ call.fn = "micropub_delete_post" =>
           \A i \in 1..Len(call.output.requests) :
               call.output.requests[i].authorization = <<"Bearer ">> \o AccessToken
                   => AdvertiserOf(call.output.requests[i].url) = SiteMe


-----------------------------------------------------------------------------
(* C37 *)

\* the micropub_auth_start in hand got as far as generating its PKCE values
\* (line 118): it had a site URL and, after discovery, an authorization
\* endpoint
ReachedPkce ==
    /\ AuthStartCalled
    /\ ~(HadToDiscover /\ call.inputs.discovery.threw)
    /\ Truthy(session.authorizationEndpoint)

\* the session holds the state and the verifier that the call generated
HoldsGeneratedFlow ==
    /\ session.authState = call.inputs.state
    /\ session.codeVerifier = call.inputs.codeVerifier

\* micropub_auth_complete accepts the state of the flow started last, and
\* no other, and exchanges with the verifier generated with it
OnlyLatestAccepted ==
    AuthCompleteCalled =>
        /\ SentTokenRequest =>
               /\ call.inputs.state = flows.latest.state
               /\ call.output.requests[1].code_verifier = flows.latest.codeVerifier
        /\ (call.inputs.state \in Started /\ call.inputs.state # flows.latest.state) =>
               /\ call.output.isError
               /\ ~SentTokenRequest

\* C37 as the specification states it: every micropub_auth_start that
\* reaches the PKCE step replaces authState and codeVerifier.
C37_AsStated ==
    /\ ReachedPkce => HoldsGeneratedFlow
    /\ OnlyLatestAccepted

\* C37: latest flow wins.  Every micropub_auth_start that returns an
\* authorization URL replaces the session's authState and codeVerifier by
\* the pair it generated, and one that fails leaves both as they were (also
\* when it fails after the PKCE step, on an authorization endpoint that is
\* no URL); among the flows started, micropub_auth_complete accepts only the
\* state of the one started last and exchanges with its verifier.
C37_LatestFlowWins ==
    /\ AuthStartCalled =>
           IF call.output.isError
           THEN /\ session.authState = call.inputs.session.authState
                /\ session.codeVerifier = call.inputs.session.codeVerifier
           ELSE ReachedPkce /\ HoldsGeneratedFlow
    /\ OnlyLatestAccepted

\* two flows were started one after the other, and the code was exchanged
\* for the state of the second with the verifier of the second
C37_Witness ==
    /\ AuthCompleteCalled
    /\ SentTokenRequest
    /\ Cardinality(flows.all) = 2
    /\ call.inputs.state = flows.latest.state
    /\ call.output.requests[1].code_verifier = flows.latest.codeVerifier
    /\ \E f \in flows.all : f.codeVerifier # call.output.requests[1].code_verifier


-----------------------------------------------------------------------------
(* C38 *)

LogoutCalled == call.fn = "micropub_logout"

\* C38: micropub_logout on an authenticated session leaves the empty
\* session state, which is not authenticated and holds no token, endpoint,
\* authState or codeVerifier; on a session that is not authenticated it
\* leaves the session as it was, the authState and codeVerifier of a flow in
\* progress included.
C38_LogoutClearsWhenAuthenticated ==
    LogoutCalled =>
        IF isAuthenticated(call.inputs.session)
        THEN /\ session = initialState
             /\ ~isAuthenticated(session)
             /\ \A member \in DOMAIN session \ {"tokenExpiresAt"} :
                    session[member] = undefined
             /\ session.tokenExpiresAt = <<>>
        ELSE session = call.inputs.session

\* a flow was in progress on a session without token when micropub_logout
\* was called, and its state and verifier are still in the session
C38_Witness ==
    /\ LogoutCalled
    /\ ~isAuthenticated(call.inputs.session)
    /\ session.authState = flows.latest.state
    /\ session.authState # undefined
    /\ session.codeVerifier = flows.latest.codeVerifier

-----------------------------------------------------------------------------
(* The micropub_media tool (tools/micropub-media.ts) and the micropub_manage *)
(* tool (registerMicropubManageTool)                                         *)

NoMediaEndpointText ==
    <<"No media endpoint available. This site may not support media uploads. ",
      "You can include external photo/video URLs directly in posts instead.">>

\* the last "/"-separated segment of a pathname given as symbols
RECURSIVE LastSegment(_)
LastSegment(path) ==
    IF path = <<>> THEN <<>>
    ELSE IF path[Len(path)] = "/" THEN <<>>
    ELSE LastSegment(SubSeq(path, 1, Len(path) - 1)) \o <<path[Len(path)]>>

\* extractFilename: the last path segment when it has a dot, else "upload"
extractFilename(url) ==
    IF ~IsAbsoluteUrl(url) THEN <<"upload">>
    ELSE LET lastSegment == LastSegment(SubSeq(url, 3, Len(url)))
         IN  IF Truthy(lastSegment) /\ \E i \in 1..Len(lastSegment) : lastSegment[i] = "."
             THEN lastSegment
             ELSE <<"upload">>

\* the multipart body: one part "file" under the file's name
FormData(filename) == [kind |-> "form", props |-> NoProperties, items |-> <<filename>>]

\* what the source URL answers: kind "network" is a fetch that rejects
FileResponse(kind, ok, status, statusText) ==
    [kind |-> kind, ok |-> ok, status |-> status, statusText |-> statusText]

\* lines 156-170: the error of an upload that was not answered with 201
UploadError(response) ==
    LET generic == <<"HTTP ", ToString(response.status)>>
    IN  IF response.json
        THEN OrElse(response.body.error_description,
                    OrElse(response.body.error, generic))
        ELSE IF Truthy(response.text) THEN response.text ELSE generic

\* formatResponse of micropub_media
FormatUpload(location, format) ==
    IF format = <<"concise">> THEN location
    ELSE <<"Media uploaded successfully", "\n", "\n", "URL: ">> \o location
         \o <<"\n", "\n",
              "Use this URL in the photo, video, or audio property when creating posts.">>

\* a plausible slip: the handler does not look for a media endpoint
MediaEndpointMissingNever(auth) == FALSE

\* line 93: !auth.mediaEndpoint
MediaEndpointMissing(auth) == Falsy(auth.mediaEndpoint)

\* the handler of micropub_media: authentication, the media endpoint, the
\* fetch of the source, then the upload with the token of the grant
micropub_media(auth, params, fileResponse, uploadResponse) ==
    IF auth = NoAuth
    THEN ToolResult(<<>>, TRUE, NotAuthenticatedText)
    ELSE IF MediaEndpointMissing(auth)
    THEN ToolResult(<<>>, TRUE, NoMediaEndpointText)
    ELSE LET fetched == <<[url |-> params.source_url, authorization |-> undefined,
                           body |-> Absent]>>
             filename == OrElse(params.filename, extractFilename(params.source_url))
             uploaded == fetched \o
                         <<[url |-> auth.mediaEndpoint,
                            authorization |-> <<"Bearer ">> \o auth.indieAuthToken,
                            body |-> FormData(filename)]>>
         IN  IF fileResponse.kind = "network"
             THEN ToolCatch(fetched, <<"Error uploading media: ">>,
                            <<"TypeError: fetch failed">>)
             ELSE IF ~fileResponse.ok
             THEN ToolResult(fetched, TRUE,
                             <<"Failed to fetch file from ">> \o params.source_url
                             \o <<": ", ToString(fileResponse.status), " ">>
                             \o fileResponse.statusText)
             ELSE IF uploadResponse.kind = "network"
             THEN ToolCatch(uploaded, <<"Error uploading media: ">>,
                            <<"TypeError: fetch failed">>)
             ELSE IF uploadResponse.status = 201
             THEN IF Falsy(uploadResponse.location)
                  THEN ToolResult(uploaded, TRUE,
                          <<"Upload succeeded but no URL was returned by the server.">>)
                  ELSE ToolResult(uploaded, FALSE,
                          FormatUpload(uploadResponse.location, params.response_format))
             ELSE ToolResult(uploaded, TRUE,
                             <<"Upload failed: ">> \o UploadError(uploadResponse))

\* grants whose props came with the media endpoint of the site, or without
MediaProps ==
    {AuthProps(TokenBody(AccessToken, SiteMe, <<"create", "media">>, 0, undefined),
               [micropubEndpoint |-> MicropubUrl, tokenEndpoint |-> TokenUrl],
               mediaEndpoint, 0) :
        mediaEndpoint \in {undefined, <<>>, MediaUrl}}

MediaParams ==
    {[source_url |-> source, filename |-> filename, response_format |-> format] :
        source \in {<<"https://", "cdn.example", "/", "img", "/", "cat", ".", "jpg">>,
                    <<"https://", "cdn.example", "/", "img", "/">>,
                    <<"cat", ".", "jpg">>},
        filename \in {undefined, <<"kitten.jpg">>},
        format \in {<<"concise">>, <<"detailed">>}}

FileResponses ==
    {FileResponse("response", TRUE, 200, <<"OK">>),
     FileResponse("response", FALSE, 404, <<"Not Found">>),
     FileResponse("network", FALSE, 0, <<>>)}

UploadResponses ==
    {MicropubResponse("response", 201, MediaUrl \o <<"/cat.jpg">>, FALSE, NoToken,
                      undefined),
     MicropubResponse("response", 201, undefined, FALSE, NoToken, undefined),
     MicropubResponse("response", 403, undefined, TRUE,
                      ErrorBody(<<"insufficient_scope">>, undefined), undefined),
     MicropubResponse("network", 0, undefined, FALSE, NoToken, undefined)}

ToolMedia(auth, params, fileResponse, uploadResponse) ==
    /\ call = NoCall
    /\ ToolCall("micropub_media",
                [auth |-> auth, params |-> params, fileResponse |-> fileResponse,
                 uploadResponse |-> uploadResponse],
                micropub_media(auth, params, fileResponse, uploadResponse))
    /\ UNCHANGED <<now, kv, issued, processed, login, cb, page>>

\* the four tools of the bridge, called with the props of a grant or with none
NextTools ==
    \/ \E auth \in MediaProps \cup {NoAuth}, content \in {<<>>, <<"Hello">>},
          response \in ToolResponses :
            ToolPost(auth, content, response)
    \/ \E auth \in MediaProps \cup {NoAuth}, params \in QueryParams,
          response \in ToolResponses :
            ToolQuery(auth, params, response)
    \/ \E auth \in MediaProps \cup {NoAuth}, params \in MediaParams,
          fileResponse \in FileResponses, uploadResponse \in UploadResponses :
            ToolMedia(auth, params, fileResponse, uploadResponse)
    \/ \E auth \in MediaProps \cup {NoAuth}, params \in ManageParams,
          response \in ToolResponses :
            ToolManage(auth, params, response)
    \/ CallForget

SpecTools == Init /\ [][NextTools]_vars

BridgeTools == {"micropub_post", "micropub_query", "micropub_media", "micropub_manage"}

\* C39: a bridge tool called without AuthProps answers with the error
\* 'Not authenticated...' and sends no HTTP request; micropub_media called
\* with AuthProps that have no media endpoint answers with an error and
\* sends no request either
C39_UnauthenticatedToolsSendNothing ==
    call.fn \in BridgeTools =>
        /\ call.inputs.auth = NoAuth =>
              /\ ~call.output.threw
              /\ call.output.isError
              /\ call.output.text = NotAuthenticatedText
              /\ call.output.requests = <<>>
        /\ (call.fn = "micropub_media" /\ Falsy(call.inputs.auth.mediaEndpoint)) =>
              /\ call.output.isError
              /\ call.output.requests = <<>>

\* micropub_media without AuthProps, for a file that the source would have
\* served and the media endpoint would have taken
C39_Witness ==
    /\ call.fn = "micropub_media"
    /\ call.inputs.auth = NoAuth
    /\ call.inputs.fileResponse.ok
    /\ call.inputs.uploadResponse.status = 201
    /\ call.output.isError
    /\ call.output.text = NotAuthenticatedText
    /\ call.output.requests = <<>>

=============================================================================
